---------------------------- MODULE Spec2Model ----------------------------
(***************************************************************************)
(* Report generation of the laboratory report assistant: the two report    *)
(* generators (tensile_processor.generate_report and                       *)
(* vda_processor.process_vda_report), the table operations of ppt_utils    *)
(* they call, the identifier parsing of the extractors and the statistics  *)
(* strings.                                                                *)
(*                                                                         *)
(* Row and cell indices are 0-based as in the source; a table's rows are   *)
(* kept in a TLA+ sequence, so row r of the source is rows[r + 1].          *)
(***************************************************************************)
EXTENDS Integers, Sequences, FiniteSets, TLC

VARIABLES
    variant,      \* "tensile" (generate_report) or "vda" (process_vda_report)
    groups,       \* extraction result: groups[g] = number of samples of group g
    include,      \* include_ag / include_disp
    mergeOk,      \* whether python-pptx accepts the group-name merge on this template
                  \* (it changes no cell text in generate_report, which is run with TRUE)
    tpl,          \* the template deck as read from disk
    slides,       \* prs.slides of the in-memory presentation
    pc,           \* position in the generator
    P,            \* GROUPS_PER_SLIDE / groups_per_slide
    total_slides, \* total_slides / num_slides_needed
    slide_idx,    \* loop variable of the fill pass
    blk,          \* loop variable i of the block loop
    row_offset,   \* row_offset of process_table_chunk
    result,       \* what the generator returned ("none" while running)
    fn_in,        \* the arguments of the function under check (function specifications)
    fn_out,       \* what it returned
    disk,         \* the files on disk: a set of <<path, content>>
    gui           \* the extract handler of the window: output path, dialog shown, file opened

vars == <<variant, groups, include, mergeOk, tpl, slides, pc, P, total_slides,
          slide_idx, blk, row_offset, result, fn_in, fn_out, disk, gui>>

----------------------------------------------------------------------------
(* Bounds of the model. *)
MaxGroups == 5
MaxSamples == 4
MaxBlocks == 4
MaxTplRows == 3
MaxCells == 3
MaxSpan == 3
MaxGridCols == 4
MaxIdLen == 5
MaxStatN == 3
MaxPdfRows == 2

(* Program constants. *)
TplCols == 7
AgCol == 5
AgMinCols == 6
DispCol == 4
DispMinCols == 5
VdaGroupsPerSlide == 4
HEADER_ROWS == 1
DEFAULT_DATA_ROWS == 3

BLOCK_SIZE == DEFAULT_DATA_ROWS + 1

----------------------------------------------------------------------------
(* Cell texts.  The text of a cell is a tagged value: k is what the text    *)
(* is, g the group and s the sample it was written for, f the field.        *)
Txt(k, g, s, f) == [k |-> k, g |-> g, s |-> s, f |-> f]
Empty == Txt("empty", 0, 0, "")
HdrText == Txt("hdr", 0, 0, "")
TplText == Txt("tpl", 0, 0, "")
TplStatText == Txt("tstat", 0, 0, "")
(* A text that contains the statistics-row marker. *)
AvgText(g) == Txt("avg", g, 0, "")

(* A table cell as the code reads it: the a:tc element, whether it has an   *)
(* a:tcPr child, the a:gridSpan and a:vMerge children of that tcPr, and its  *)
(* text.                                                                    *)
Cell(tcPr, span, vMerge, text) ==
    [tcPr |-> tcPr, span |-> span, vMerge |-> vMerge, text |-> text]

(* rid is a ghost field: the index the row had in the template, NewRow for  *)
(* a row created by an insertion.                                           *)
MkRow(cells, rid) == [cells |-> cells, rid |-> rid]
NewRow == 0 - 1

NRows(t) == Len(t.rows)
RowAt(t, r) == t.rows[r + 1]
NCells(row) == Len(row.cells)

(* The marker test of both scans: "平均" or "average" in the row's text. *)
IsMarkerRow(row) == \E c \in 1..Len(row.cells) : row.cells[c].text.k = "avg"

RECURSIVE ScanMarkers(_, _)
ScanMarkers(rows, r) ==
    IF r > Len(rows) THEN <<>>
    ELSE (IF IsMarkerRow(rows[r]) THEN <<r - 1>> ELSE <<>>)
         \o ScanMarkers(rows, r + 1)

(* The 0-based indices of the statistics rows, ascending. *)
MarkerRows(t) == ScanMarkers(t.rows, 1)

RemoveAt(s, i) == SubSeq(s, 1, i - 1) \o SubSeq(s, i + 1, Len(s))
InsertAt(s, i, e) == SubSeq(s, 1, i - 1) \o <<e>> \o SubSeq(s, i, Len(s))

SetText(row, c, txt) == [row EXCEPT !.cells[c + 1].text = txt]

CeilDiv(a, b) == (a + b - 1) \div b
Min(a, b) == IF a < b THEN a ELSE b

----------------------------------------------------------------------------
(* ppt_utils: the table operations. *)

(* The span delete_table_column reads: the gridSpan child of tcPr, 1 when   *)
(* there is no tcPr or no gridSpan.                                         *)
GridSpanOf(cell) == IF cell.tcPr THEN cell.span ELSE 1

RECURSIVE SumSpans(_, _)
SumSpans(cells, i) ==
    IF i > Len(cells) THEN 0 ELSE GridSpanOf(cells[i]) + SumSpans(cells, i + 1)

(* The number of grid columns the cells of a row cover. *)
SpanSum(row) == SumSpans(row.cells, 1)

(* Every row's horizontal spans add up to the number of grid columns. *)
WellFormed(t) == \A r \in 1..Len(t.rows) : SpanSum(t.rows[r]) = t.grid

(* The index (1-based, 0 when none) of the first cell whose span covers     *)
(* grid column col, walking the row's cells from visual column `visual`.    *)
RECURSIVE FindCover(_, _, _, _)
FindCover(cells, i, visual, col) ==
    IF i > Len(cells) THEN 0
    ELSE IF visual <= col /\ col < visual + GridSpanOf(cells[i]) THEN i
    ELSE FindCover(cells, i + 1, visual + GridSpanOf(cells[i]), col)

(* Mutant of DeleteColumnInRow: the covering cell is removed whatever its   *)
(* span.                                                                    *)
DeleteColumnInRow_AlwaysRemove(row, col) ==
    LET i == FindCover(row.cells, 1, 0, col) IN
    IF i = 0 THEN row ELSE [row EXCEPT !.cells = RemoveAt(@, i)]

(* One row of delete_table_column: the covering cell is removed when its    *)
(* span is 1 and has its span decremented otherwise.                        *)
DeleteColumnInRow(row, col) ==
    LET i == FindCover(row.cells, 1, 0, col) IN
    IF i = 0 THEN row
    ELSE IF GridSpanOf(row.cells[i]) > 1
         THEN [row EXCEPT !.cells[i].span = @ - 1]
         ELSE [row EXCEPT !.cells = RemoveAt(@, i)]

delete_table_column(t, col_idx) ==
    [grid |-> IF col_idx < t.grid THEN t.grid - 1 ELSE t.grid,
     rows |-> [r \in 1..Len(t.rows) |-> DeleteColumnInRow(t.rows[r], col_idx)]]

delete_table_row(t, row_idx) ==
    IF row_idx < 0 \/ row_idx >= NRows(t) THEN t
    ELSE [t EXCEPT !.rows = RemoveAt(@, row_idx + 1)]

(* The clone insert_table_row makes of a row: in every cell that has a      *)
(* tcPr the vMerge child is removed and the runs of the text are removed;   *)
(* gridSpan is kept.  A cell without tcPr is copied as it is.               *)
InsertClone(row) ==
    MkRow([c \in 1..Len(row.cells) |->
              IF row.cells[c].tcPr
              THEN [row.cells[c] EXCEPT !.vMerge = FALSE, !.text = Empty]
              ELSE row.cells[c]],
          NewRow)

(* table.rows[source_idx] and the final table.rows[target_idx] raise        *)
(* IndexError outside the table.                                            *)
InsertRaises(t, target_idx, source_idx) ==
    \/ source_idx < 0 \/ source_idx >= NRows(t)
    \/ target_idx < 0 \/ target_idx > NRows(t)

insert_table_row(t, target_idx, source_idx) ==
    LET new_tr == InsertClone(RowAt(t, source_idx)) IN
    IF target_idx < NRows(t)
    THEN [t EXCEPT !.rows = InsertAt(@, target_idx + 1, new_tr)]
    ELSE [t EXCEPT !.rows = Append(@, new_tr)]

(* The clone add_table_row (vda_processor) makes: vMerge and gridSpan are   *)
(* both removed from every cell that has a tcPr; the text is kept.          *)
AddClone(row) ==
    MkRow([c \in 1..Len(row.cells) |->
              IF row.cells[c].tcPr
              THEN [row.cells[c] EXCEPT !.vMerge = FALSE, !.span = 1]
              ELSE row.cells[c]],
          NewRow)

AddRaises(t, clone_idx) == clone_idx < 0 \/ clone_idx >= NRows(t)

(* tr.addnext(new_tr): the clone goes right after the cloned row. *)
add_table_row(t, clone_idx) ==
    [t EXCEPT !.rows = InsertAt(@, clone_idx + 2, AddClone(RowAt(t, clone_idx)))]

clean_cell_merge_info(cell) ==
    IF cell.tcPr THEN [cell EXCEPT !.vMerge = FALSE] ELSE cell

(* Mutant of duplicate_slide: the new slide is added from the layout and    *)
(* the shapes of the source slide are not copied into it.                   *)
duplicate_slide_LayoutOnly(prs, index) ==
    Append(prs, [hasTable |-> FALSE, table |-> [grid |-> 0, rows |-> <<>>],
                 proj |-> "placeholder"])

(* duplicate_slide appends a slide holding deep copies of the shapes of     *)
(* the slide at `index`.                                                    *)
duplicate_slide(prs, index) == Append(prs, prs[index + 1])

----------------------------------------------------------------------------
(* Templates.  The first table of a template's first slide has one header   *)
(* row and nb blocks of nd data rows followed by a statistics row.          *)
(* Three cell layouts: "plain" (every cell has a tcPr, no merge), "bare"    *)
(* (no cell has a tcPr), "merged" (horizontally merged cells in the header, *)
(* the data rows and the statistics rows, a vertically merged first column).*)
Ones(n, tcPr, text) == [c \in 1..n |-> Cell(tcPr, 1, FALSE, text)]

HeaderCells(shape) ==
    IF shape = "merged"
    THEN Ones(TplCols - 3, TRUE, HdrText) \o <<Cell(TRUE, 3, FALSE, HdrText)>>
    ELSE Ones(TplCols, shape = "plain", HdrText)

DataCells(shape, first) ==
    IF shape = "merged"
    THEN <<Cell(TRUE, 1, ~first, TplText)>> \o Ones(TplCols - 3, TRUE, TplText)
         \o <<Cell(TRUE, 2, FALSE, TplText)>>
    ELSE Ones(TplCols, shape = "plain", TplText)

StatCells(shape) ==
    IF shape = "merged"
    THEN <<Cell(TRUE, 2, FALSE, AvgText(0))>> \o Ones(TplCols - 2, TRUE, TplStatText)
    ELSE <<Cell(shape = "plain", 1, FALSE, AvgText(0))>>
         \o Ones(TplCols - 1, shape = "plain", TplStatText)

(* Row index (0-based, in the template) of the statistics row of block b    *)
(* (b = 1, 2, ...) when every block has nd data rows.                       *)
TplStatRow(b, nd) == b * (nd + 1)
(* The block (1, 2, ...) a template row belongs to; 0 for the header. *)
TplBlockOf(rid, nd) == IF rid <= 0 THEN 0 ELSE (rid + nd) \div (nd + 1)

TemplateRow(r, nd, shape) ==
    IF r = 0 THEN MkRow(HeaderCells(shape), 0)
    ELSE IF r % (nd + 1) = 0 THEN MkRow(StatCells(shape), r)
    ELSE MkRow(DataCells(shape, r % (nd + 1) = 1), r)

TemplateTable(nb, nd, shape) ==
    [grid |-> TplCols,
     rows |-> [i \in 1..(1 + nb * (nd + 1)) |-> TemplateRow(i - 1, nd, shape)]]

NoTable == [grid |-> 0, rows |-> <<>>]

(* A slide: whether it has a table shape, its first table, and whether its  *)
(* text frames still hold the project-number placeholder.                    *)
Slide(hasTable, table, proj) ==
    [hasTable |-> hasTable, table |-> table, proj |-> proj]

Shapes == {"plain", "bare", "merged"}

(* A template deck: its first slide and the slides that follow it (extra);   *)
(* nb, nd and shape describe the first slide's table.                       *)
Template(nb, nd, sh, slide, extra) ==
    [nb |-> nb, nd |-> nd, shape |-> sh, slide |-> slide, extra |-> extra]

Templates ==
    {Template(nb, nd, sh, Slide(TRUE, TemplateTable(nb, nd, sh), "placeholder"), <<>>) :
        nb \in 0..MaxBlocks, nd \in 1..MaxTplRows, sh \in Shapes}

(* prs.slides right after Presentation(template). *)
Deck(t) == <<t.slide>> \o t.extra

(* Extraction results: group g has a samples when g is odd, b when even. *)
GroupInputs ==
    {<<>>} \cup
    {[g \in 1..n |-> IF g % 2 = 1 THEN a ELSE b] :
        n \in 1..MaxGroups, a \in 1..MaxSamples, b \in 1..MaxSamples}

----------------------------------------------------------------------------
(* tensile_processor.generate_report: one block of the reversed block loop. *)

RECURSIVE InsertRows(_, _, _, _)
InsertRows(t, stat_row_idx, start_row_idx, k) ==
    IF k = 0 THEN t
    ELSE InsertRows(insert_table_row(t, stat_row_idx, start_row_idx),
                    stat_row_idx + 1, start_row_idx, k - 1)

RECURSIVE DeleteRowsAbove(_, _, _)
DeleteRowsAbove(t, stat_row_idx, k) ==
    IF k = 0 THEN t
    ELSE DeleteRowsAbove(delete_table_row(t, stat_row_idx - 1),
                         stat_row_idx - 1, k - 1)

(* The dynamic resize of a block to n_samples data rows. *)
TensileResize(t, stat_row_idx, start_row_idx, n_samples) ==
    LET current_slots == stat_row_idx - start_row_idx IN
    IF n_samples > current_slots
    THEN InsertRows(t, stat_row_idx, start_row_idx, n_samples - current_slots)
    ELSE DeleteRowsAbove(t, stat_row_idx, current_slots - n_samples)

(* Data row k (0, 1, ...) of group g: merge cleaning of the first cell and  *)
(* the cell texts.  Cells 0..2 are indexed unguarded, the others guarded.   *)
TensileFillRow(row, g, k, inc) ==
    LET n  == NCells(row)
        r0 == [row EXCEPT !.cells[1] = clean_cell_merge_info(@)]
        r1 == SetText(r0, 0, IF k = 0 THEN Txt("grp", g, 0, "") ELSE Empty)
        r2 == SetText(r1, 1, Txt("id", g, k + 1, ""))
        r3 == SetText(r2, 2, Txt("val", g, k + 1, "thick"))
        r4 == IF 3 < n THEN SetText(r3, 3, Txt("val", g, k + 1, "Rp")) ELSE r3
        r5 == IF 4 < n THEN SetText(r4, 4, Txt("val", g, k + 1, "Rm")) ELSE r4
        r6 == IF inc /\ 5 < n THEN SetText(r5, 5, Txt("val", g, k + 1, "Ag")) ELSE r5
        cA == IF inc THEN 6 ELSE 5
    IN  IF cA < n THEN SetText(r6, cA, Txt("val", g, k + 1, "A")) ELSE r6

(* The statistics row of group g. *)
TensileFillStat(row, g, inc) ==
    LET n  == NCells(row)
        r0 == SetText(row, 0, AvgText(g))
        r1 == IF 3 < n THEN SetText(r0, 3, Txt("stat", g, 0, "Rp")) ELSE r0
        r2 == IF 4 < n THEN SetText(r1, 4, Txt("stat", g, 0, "Rm")) ELSE r1
        r3 == IF inc /\ 5 < n THEN SetText(r2, 5, Txt("stat", g, 0, "Ag")) ELSE r2
        cA == IF inc THEN 6 ELSE 5
    IN  IF cA < n THEN SetText(r3, cA, Txt("stat", g, 0, "A")) ELSE r3

(* The fill of a resized block.  The merge of the group-name cells changes  *)
(* no cell text here: the spanned cells are empty when it runs, and both    *)
(* its success and its failure end with the name in the first row's cell.   *)
TensileFill(t, start_row_idx, n_samples, g, inc) ==
    [t EXCEPT !.rows =
        [r \in 1..Len(t.rows) |->
            IF r - 1 >= start_row_idx /\ r - 1 < start_row_idx + n_samples
            THEN TensileFillRow(t.rows[r], g, r - 1 - start_row_idx, inc)
            ELSE IF r - 1 = start_row_idx + n_samples
            THEN TensileFillStat(t.rows[r], g, inc)
            ELSE t.rows[r]]]

(* An IndexError of the block: a cloned row outside the table, or a data    *)
(* or statistics row that is missing or too short for the unguarded cells.  *)
TensileBlockRaises(t, stat_row_idx, start_row_idx, n_samples) ==
    LET t2 == TensileResize(t, stat_row_idx, start_row_idx, n_samples) IN
    \/ /\ n_samples > stat_row_idx - start_row_idx
       /\ InsertRaises(t, stat_row_idx, start_row_idx)
    \/ /\ ~(n_samples > stat_row_idx - start_row_idx
            /\ InsertRaises(t, stat_row_idx, start_row_idx))
       /\ \/ start_row_idx + n_samples >= NRows(t2)
          \/ \E k \in 0..(n_samples - 1) : NCells(RowAt(t2, start_row_idx + k)) < 3
          \/ NCells(RowAt(t2, start_row_idx + n_samples)) < 1

----------------------------------------------------------------------------
(* vda_processor.process_table_chunk: one iteration of its block loop.      *)

(* What an iteration leaves: the table, row_offset, and whether an          *)
(* exception left the function.                                             *)
VdaOut(t, off, raised) == [t |-> t, off |-> off, raised |-> raised]

(* diff > 0: clone the row above the statistics row, diff times.  The       *)
(* clone index is one less than the statistics row index, which moves down  *)
(* by one with every clone.                                                 *)
RECURSIVE VdaAddRows(_, _, _, _)
VdaAddRows(t, stats_idx, off, k) ==
    IF k = 0 THEN VdaOut(t, off, FALSE)
    ELSE IF AddRaises(t, stats_idx - 1) THEN VdaOut(t, off, TRUE)
    ELSE VdaAddRows(add_table_row(t, stats_idx - 1), stats_idx + 1, off + 1, k - 1)

RECURSIVE VdaDelRows(_, _, _, _)
VdaDelRows(t, stats_idx, off, k) ==
    IF k = 0 THEN VdaOut(t, off, FALSE)
    ELSE VdaDelRows(delete_table_row(t, stats_idx - 1), stats_idx - 1, off - 1, k - 1)

VdaResize(t, current_start_row, off, n_data) ==
    LET diff == n_data - DEFAULT_DATA_ROWS
        current_stats_row_idx == current_start_row + DEFAULT_DATA_ROWS
    IN  IF diff > 0 THEN VdaAddRows(t, current_stats_row_idx, off, diff)
        ELSE VdaDelRows(t, current_stats_row_idx, off, 0 - diff)

(* table.cell(r, c) exists. *)
HasCell(t, r, c) == r >= 0 /\ r < NRows(t) /\ c >= 0 /\ c < NCells(RowAt(t, r))

(* format_cell_text: the text is set when the cell exists, and the          *)
(* IndexError is swallowed when it does not.                                *)
format_cell_text(t, r, c, txt) ==
    IF HasCell(t, r, c) THEN [t EXCEPT !.rows[r + 1] = SetText(@, c, txt)] ELSE t

(* cell_top.merge(cell_bottom) of fill_group_data: when both cells exist    *)
(* and python-pptx accepts the range, the text of the spanned cells moves   *)
(* to the top cell (which is overwritten with the group name next).         *)
VdaMerge(t, start_row, n_rows, ok) ==
    IF n_rows > 1 /\ ok /\ HasCell(t, start_row, 0)
       /\ HasCell(t, start_row + n_rows - 1, 0)
       /\ \A r \in start_row..(start_row + n_rows - 1) : HasCell(t, r, 0)
    THEN [t EXCEPT !.rows =
            [r \in 1..Len(t.rows) |->
                IF r - 1 > start_row /\ r - 1 <= start_row + n_rows - 1
                THEN SetText(t.rows[r], 0, Empty) ELSE t.rows[r]]]
    ELSE t

RECURSIVE VdaFillRows(_, _, _, _, _, _)
VdaFillRows(t, g, start_row, idx, n_rows, inc) ==
    IF idx >= n_rows THEN t
    ELSE LET r  == start_row + idx
             t1 == format_cell_text(t, r, 1, Txt("id", g, idx + 1, ""))
             t2 == format_cell_text(t1, r, 2, Txt("val", g, idx + 1, "Thickness"))
             t3 == format_cell_text(t2, r, 3, Txt("val", g, idx + 1, "MaxForce"))
             t4 == IF inc
                   THEN format_cell_text(t3, r, 4, Txt("val", g, idx + 1, "Displacement"))
                   ELSE t3
             current_col == IF inc THEN 5 ELSE 4
             t5 == IF current_col < t.grid
                   THEN format_cell_text(t4, r, current_col, Txt("val", g, idx + 1, "Angle"))
                   ELSE t4
         IN  VdaFillRows(t5, g, start_row, idx + 1, n_rows, inc)

(* fill_group_data raises when the group-name cell does not exist. *)
FillGroupRaises(t, start_row) == ~HasCell(t, start_row, 0)

fill_group_data(t, g, start_row, n_rows, inc, ok) ==
    LET t1 == VdaMerge(t, start_row, n_rows, ok)
        t2 == [t1 EXCEPT !.rows[start_row + 1] = SetText(@, 0, Txt("grp", g, 0, ""))]
    IN  VdaFillRows(t2, g, start_row, 0, n_rows, inc)

(* fill_stats_row indexes its cells unguarded. *)
FillStatsRaises(t, r_idx, inc) ==
    LET current_col == IF inc THEN 5 ELSE 4 IN
    \/ ~HasCell(t, r_idx, 1) \/ ~HasCell(t, r_idx, 2) \/ ~HasCell(t, r_idx, 3)
    \/ inc /\ ~HasCell(t, r_idx, 4)
    \/ current_col < t.grid /\ ~HasCell(t, r_idx, current_col)

fill_stats_row(t, g, r_idx, inc) ==
    LET s1 == SetText(RowAt(t, r_idx), 1, AvgText(g))
        s2 == SetText(s1, 2, Txt("stat", g, 0, "Thickness"))
        s3 == SetText(s2, 3, Txt("stat", g, 0, "MaxForce"))
        s4 == IF inc THEN SetText(s3, 4, Txt("stat", g, 0, "Displacement")) ELSE s3
        current_col == IF inc THEN 5 ELSE 4
        s5 == IF current_col < t.grid
              THEN SetText(s4, current_col, Txt("stat", g, 0, "Angle")) ELSE s4
    IN  [t EXCEPT !.rows[r_idx + 1] = s5]

(* The branch of a block that has a group: resize, fill, statistics. *)
VdaGroupBlock(t, off, i, g, n_data, inc, ok) ==
    LET current_start_row == HEADER_ROWS + (i * BLOCK_SIZE) + off
        rs == VdaResize(t, current_start_row, off, n_data)
    IN  IF rs.raised THEN rs
        ELSE IF FillGroupRaises(rs.t, current_start_row) THEN VdaOut(rs.t, rs.off, TRUE)
        ELSE LET t1 == fill_group_data(rs.t, g, current_start_row, n_data, inc, ok) IN
             IF FillStatsRaises(t1, current_start_row + n_data, inc)
             THEN VdaOut(t1, rs.off, TRUE)
             ELSE VdaOut(fill_stats_row(t1, g, current_start_row + n_data, inc),
                         rs.off, FALSE)

(* The branch of a block that has no group: BLOCK_SIZE deletions at the     *)
(* block's first row, as long as that row exists.                           *)
RECURSIVE VdaDropBlock(_, _, _, _)
VdaDropBlock(t, current_start_row, off, k) ==
    IF k = 0 THEN VdaOut(t, off, FALSE)
    ELSE IF current_start_row < NRows(t)
    THEN VdaDropBlock(delete_table_row(t, current_start_row), current_start_row,
                      off - 1, k - 1)
    ELSE VdaDropBlock(t, current_start_row, off, k - 1)

VdaEmptyBlock(t, off, i) ==
    LET current_start_row == HEADER_ROWS + (i * BLOCK_SIZE) + off IN
    IF current_start_row >= NRows(t) THEN VdaOut(t, off, FALSE)
    ELSE VdaDropBlock(t, current_start_row, off, BLOCK_SIZE)

----------------------------------------------------------------------------
(* The report generators as a state machine. *)

G == Len(groups)

(* The groups of slide k (0, 1, ...): positions k*P+1 .. min((k+1)*P, G) of *)
(* the extraction order, as a sequence (the slice batch_groups / chunk).    *)
Batch(k) ==
    [j \in 1..(Min((k + 1) * P, G) - Min(k * P, G)) |-> k * P + j]

(* The files of a run.  The template is the bundled resource; the report is *)
(* written next to the source file under a name of its own.                *)
TemplatePath == <<"t", ".", "p">>
ReportPath == <<"r", ".", "p">>

(* A file written at path: it replaces what was there. *)
Write(files, path, content) ==
    {f \in files : f[1] # path} \cup {<<path, content>>}

(* A generator called with output_path = ReportPath on a disk holding the   *)
(* template only; no window.                                                *)
DirectCall(t) ==
    /\ disk = {<<TemplatePath, Deck(t)>>}
    /\ gui = [out |-> ReportPath, folder |-> "data", dialog |-> <<>>, opened |-> FALSE]

Init ==
    /\ variant \in {"tensile", "vda"}
    /\ groups \in GroupInputs
    /\ include \in BOOLEAN
    /\ mergeOk \in (IF variant = "vda" THEN BOOLEAN ELSE {TRUE})
    /\ tpl \in Templates
    /\ slides = <<>>
    /\ pc = "start"
    /\ P = 0
    /\ total_slides = 0
    /\ slide_idx = 0
    /\ blk = 0
    /\ row_offset = 0
    /\ result = "none"
    /\ fn_in = "none"
    /\ fn_out = "none"
    /\ DirectCall(tpl)

Finish(res) ==
    /\ pc' = "done"
    /\ result' = res

(* Mutant of Extract: the run goes on to the template whatever the number   *)
(* of groups.                                                               *)
Extract_NoCheck ==
    /\ pc = "start"
    /\ pc' = "open"
    /\ UNCHANGED <<variant, groups, include, mergeOk, tpl, slides, P, total_slides,
                   slide_idx, blk, row_offset, result, fn_in, fn_out, disk, gui>>

(* The extraction came back.  generate_report returns the no-data error     *)
(* before it opens the template; process_vda_report opens the template      *)
(* first and then returns its no-data error.                                *)
Extract ==
    /\ pc = "start"
    /\ UNCHANGED <<fn_in, fn_out, disk, gui>>
    /\ IF G = 0
       THEN /\ Finish("err_nodata")
            /\ slides' = IF variant = "vda" THEN Deck(tpl) ELSE slides
       ELSE /\ pc' = "open"
            /\ UNCHANGED <<result, slides>>
    /\ UNCHANGED <<variant, groups, include, mergeOk, tpl, P, total_slides,
                   slide_idx, blk, row_offset>>

(* template_capacity of generate_report: the marker rows of the first       *)
(* table of slide 0, and 1 when there is none.                              *)
TemplateCapacity(t) ==
    IF Len(MarkerRows(t)) = 0 THEN 1 ELSE Len(MarkerRows(t))

(* The page capacity each generator uses. *)
PageCapacity(v, slide) ==
    IF v = "tensile" THEN TemplateCapacity(slide.table) ELSE VdaGroupsPerSlide

(* Presentation(template), the page capacity and the slide count. *)
OpenTemplate ==
    /\ pc = "open"
    /\ UNCHANGED <<fn_in, fn_out, disk, gui>>
    /\ slides' = Deck(tpl)
    /\ IF variant = "tensile" /\ ~tpl.slide.hasTable
       THEN /\ Finish("err_notable")
            /\ UNCHANGED <<P, total_slides>>
       ELSE /\ P' = PageCapacity(variant, tpl.slide)
            /\ total_slides' = CeilDiv(G, P')
            /\ pc' = IF total_slides' > 1 THEN "dup" ELSE "slide"
            /\ UNCHANGED result
    /\ UNCHANGED <<variant, groups, include, mergeOk, tpl, slide_idx, blk, row_offset>>

(* One round of the copy loop. *)
DuplicateSlide ==
    /\ pc = "dup"
    /\ UNCHANGED <<fn_in, fn_out, disk, gui>>
    /\ slides' = duplicate_slide(slides, 0)
    /\ pc' = IF Len(slides') < Len(Deck(tpl)) + total_slides - 1 THEN "dup" ELSE "slide"
    /\ UNCHANGED <<variant, groups, include, mergeOk, tpl, P, total_slides,
                   slide_idx, blk, row_offset, result>>

(* Where the fill pass goes after slide k. *)
AfterSlide(k) ==
    /\ slide_idx' = k + 1
    /\ pc' = IF k + 1 < total_slides THEN "slide" ELSE "save"

(* The column removed when the optional column is switched off. *)
DropOptionalColumn(v, t, inc) ==
    IF inc THEN t
    ELSE IF v = "tensile"
         THEN (IF t.grid >= AgMinCols THEN delete_table_column(t, AgCol) ELSE t)
         ELSE (IF t.grid >= DispMinCols THEN delete_table_column(t, DispCol) ELSE t)

(* Mutant of BeginSlide: a slide without a table ends the run. *)
BeginSlide_AbortsWithoutTable ==
    /\ pc = "slide"
    /\ UNCHANGED <<fn_in, fn_out, disk, gui>>
    /\ LET s  == slides[slide_idx + 1]
           t1 == DropOptionalColumn(variant, s.table, include)
       IN  IF ~s.hasTable
           THEN /\ Finish("err_notable")
                /\ UNCHANGED <<slides, slide_idx, blk, row_offset>>
           ELSE /\ slides' = [slides EXCEPT ![slide_idx + 1].proj = "filled",
                                            ![slide_idx + 1].table = t1]
                /\ row_offset' = 0
                /\ UNCHANGED result
                /\ IF variant = "tensile"
                   THEN /\ blk' = Len(MarkerRows(t1)) - 1
                        /\ IF Len(MarkerRows(t1)) = 0
                           THEN AfterSlide(slide_idx)
                           ELSE /\ pc' = "block"
                                /\ UNCHANGED slide_idx
                   ELSE /\ blk' = 0
                        /\ pc' = "block"
                        /\ UNCHANGED slide_idx
    /\ UNCHANGED <<variant, groups, include, mergeOk, tpl, P, total_slides>>

(* The head of the fill loop for one slide: the project number, the first   *)
(* table, the optional column, and the set-up of the block loop.            *)
BeginSlide ==
    /\ pc = "slide"
    /\ UNCHANGED <<fn_in, fn_out, disk, gui>>
    /\ LET s  == slides[slide_idx + 1]
           t1 == DropOptionalColumn(variant, s.table, include)
       IN  IF ~s.hasTable
           THEN /\ slides' = [slides EXCEPT ![slide_idx + 1].proj = "filled"]
                /\ AfterSlide(slide_idx)
                /\ UNCHANGED <<blk, row_offset>>
           ELSE /\ slides' = [slides EXCEPT ![slide_idx + 1].proj = "filled",
                                            ![slide_idx + 1].table = t1]
                /\ row_offset' = 0
                /\ IF variant = "tensile"
                   THEN /\ blk' = Len(MarkerRows(t1)) - 1
                        /\ IF Len(MarkerRows(t1)) = 0
                           THEN AfterSlide(slide_idx)
                           ELSE /\ pc' = "block"
                                /\ UNCHANGED slide_idx
                   ELSE /\ blk' = 0
                        /\ pc' = "block"
                        /\ UNCHANGED slide_idx
    /\ UNCHANGED <<variant, groups, include, mergeOk, tpl, P, total_slides, result>>

(* generate_report: block i of the reversed loop, statistics rows located   *)
(* by a fresh scan.                                                         *)
TensileBlock ==
    /\ pc = "block"
    /\ UNCHANGED <<fn_in, fn_out, disk, gui>>
    /\ variant = "tensile"
    /\ LET t     == slides[slide_idx + 1].table
           batch == Batch(slide_idx)
           current_avg_rows == MarkerRows(t)
           i     == blk
       IN  IF i >= P
           THEN \* continue
                /\ IF i = 0 THEN AfterSlide(slide_idx)
                   ELSE /\ blk' = i - 1 /\ UNCHANGED <<pc, slide_idx>>
                /\ UNCHANGED <<slides, result>>
           ELSE IF i >= Len(current_avg_rows)
           THEN \* break
                /\ AfterSlide(slide_idx)
                /\ UNCHANGED <<slides, blk, result>>
           ELSE LET stat_row_idx  == current_avg_rows[i + 1]
                    start_row_idx == IF i = 0 THEN 1 ELSE current_avg_rows[i] + 1
                IN  IF i < Len(batch)
                    THEN LET g == batch[i + 1]
                             n_samples == groups[g]
                         IN  IF TensileBlockRaises(t, stat_row_idx, start_row_idx, n_samples)
                             THEN /\ Finish("err_run")
                                  /\ UNCHANGED <<slides, blk, slide_idx>>
                             ELSE /\ slides' = [slides EXCEPT ![slide_idx + 1].table =
                                        TensileFill(TensileResize(t, stat_row_idx,
                                                        start_row_idx, n_samples),
                                                    start_row_idx, n_samples, g, include)]
                                  /\ IF i = 0 THEN AfterSlide(slide_idx) /\ UNCHANGED blk
                                     ELSE /\ blk' = i - 1
                                          /\ UNCHANGED <<pc, slide_idx>>
                                  /\ UNCHANGED result
                    ELSE /\ IF i = 0 THEN AfterSlide(slide_idx) /\ UNCHANGED blk
                            ELSE /\ blk' = i - 1
                                 /\ UNCHANGED <<pc, slide_idx>>
                         /\ UNCHANGED <<slides, result>>
    /\ UNCHANGED <<variant, groups, include, mergeOk, tpl, P, total_slides, row_offset>>

(* process_table_chunk: iteration i of range(4).  An exception leaves       *)
(* process_vda_report, which has no handler around the fill pass.           *)
VdaBlock ==
    /\ pc = "block"
    /\ UNCHANGED <<fn_in, fn_out, disk, gui>>
    /\ variant = "vda"
    /\ LET t     == slides[slide_idx + 1].table
           chunk == Batch(slide_idx)
           i     == blk
           out   == IF i < Len(chunk)
                    THEN VdaGroupBlock(t, row_offset, i, chunk[i + 1],
                                       groups[chunk[i + 1]], include, mergeOk)
                    ELSE VdaEmptyBlock(t, row_offset, i)
       IN  /\ slides' = [slides EXCEPT ![slide_idx + 1].table = out.t]
           /\ row_offset' = out.off
           /\ IF out.raised
              THEN /\ Finish("raise")
                   /\ UNCHANGED <<blk, slide_idx>>
              ELSE /\ IF i + 1 < VdaGroupsPerSlide
                      THEN /\ blk' = i + 1
                           /\ UNCHANGED <<pc, slide_idx>>
                      ELSE /\ AfterSlide(slide_idx)
                           /\ UNCHANGED blk
                   /\ UNCHANGED result
    /\ UNCHANGED <<variant, groups, include, mergeOk, tpl, P, total_slides>>

(* Mutant of Save: the deck is written over the template file. *)
Save_OverTemplate ==
    /\ pc = "save"
    /\ UNCHANGED <<fn_in, fn_out, gui>>
    /\ \E ok \in BOOLEAN :
          /\ Finish(IF ok THEN "ok"
                    ELSE IF variant = "tensile" THEN "err_run" ELSE "err_save")
          /\ disk' = IF ok THEN Write(disk, TemplatePath, slides) ELSE disk
    /\ UNCHANGED <<variant, groups, include, mergeOk, tpl, slides, P, total_slides,
                   slide_idx, blk, row_offset>>

(* prs.save(output_path): it succeeds, or fails on a locked destination.    *)
(* generate_report's handler turns the failure into its run-time error      *)
(* result; process_vda_report returns its save error.                       *)
Save ==
    /\ pc = "save"
    /\ UNCHANGED <<fn_in, fn_out, gui>>
    /\ \E ok \in BOOLEAN :
          /\ Finish(IF ok THEN "ok"
                    ELSE IF variant = "tensile" THEN "err_run" ELSE "err_save")
          /\ disk' = IF ok THEN Write(disk, gui.out, slides) ELSE disk
    /\ UNCHANGED <<variant, groups, include, mergeOk, tpl, slides, P, total_slides,
                   slide_idx, blk, row_offset>>

Next ==
    \/ Extract
    \/ OpenTemplate
    \/ DuplicateSlide
    \/ BeginSlide
    \/ TensileBlock
    \/ VdaBlock
    \/ Save

Spec == Init /\ [][Next]_vars

----------------------------------------------------------------------------
(* Layout claims. *)

SlideIdxs == 0..(Len(slides) - 1)
TableOf(k) == slides[k + 1].table
SeqRange(q) == {q[j] : j \in 1..Len(q)}
Rids(rows) == [j \in 1..Len(rows) |-> rows[j].rid]

(* The groups whose name or sample numbers are written in slide k's table. *)
GroupsOn(k) ==
    {g \in 1..G :
        \E r \in 1..NRows(TableOf(k)) :
            \E c \in 1..NCells(TableOf(k).rows[r]) :
                /\ TableOf(k).rows[r].cells[c].text.k \in {"grp", "id"}
                /\ TableOf(k).rows[r].cells[c].text.g = g}

FillPassOver == pc = "save" \/ (pc = "done" /\ result \in {"ok", "err_save", "err_run"})

(* C1: for G >= 1 groups and page capacity P the run produces exactly       *)
(* ceil(G/P) slides, and slide k holds exactly the groups at positions      *)
(* k*P .. min((k+1)*P, G)-1 of the extraction order.                        *)
C1_SlidesAndBatches ==
    (pc \in {"save", "done"} /\ G >= 1) =>
        /\ FillPassOver
        /\ Len(slides) = CeilDiv(G, P)
        /\ \A k \in SlideIdxs : GroupsOn(k) = SeqRange(Batch(k))

(* C2: after the fill pass no slide's table keeps a row of a template block *)
(* that has no group assigned on that slide.                                *)
C2_UnusedBlocksRemoved ==
    FillPassOver =>
        \A k \in SlideIdxs :
            \A r \in 1..NRows(TableOf(k)) :
                TplBlockOf(TableOf(k).rows[r].rid, tpl.nd) <= Len(Batch(k))

(* C3: the page capacity in use is the number of marker rows of the         *)
(* template's first table.                                                  *)
C3_CapacityIsMarkerCount ==
    (pc \in {"dup", "slide", "block", "save"}) =>
        P = Len(MarkerRows(tpl.slide.table))

(* C4: a step that adds rows to a table whose rows all span the declared    *)
(* column count leaves the column count as it was and leaves every row,     *)
(* the added ones included, spanning it.                                    *)
C4_ExpansionKeepsGrid ==
    [][\A k \in SlideIdxs :
          (/\ k + 1 <= Len(slides')
           /\ NRows(slides'[k + 1].table) > NRows(TableOf(k))
           /\ WellFormed(TableOf(k)))
          => /\ slides'[k + 1].table.grid = TableOf(k).grid
             /\ WellFormed(slides'[k + 1].table)]_vars

(* The block (by marker rows) with index i of table t: its first data row   *)
(* and its statistics row.                                                  *)
BlockStart(t, i) == IF i = 0 THEN 1 ELSE MarkerRows(t)[i] + 1
BlockStat(t, i) == MarkerRows(t)[i + 1]

(* C6: the step that sizes block i for a group of n samples leaves block i  *)
(* with exactly n data rows followed by its statistics row, and leaves the  *)
(* rows before the block (the header included) and after it the same rows   *)
(* in the same order.                                                       *)
C6_BlockResized ==
    [][(/\ pc = "block"
        /\ blk < Len(Batch(slide_idx))
        /\ blk < Len(MarkerRows(TableOf(slide_idx))))
       => LET t  == TableOf(slide_idx)
              t2 == slides'[slide_idx + 1].table
              n  == groups[Batch(slide_idx)[blk + 1]]
          IN  /\ Len(MarkerRows(t2)) = Len(MarkerRows(t))
              /\ BlockStat(t2, blk) - BlockStart(t2, blk) = n
              /\ BlockStart(t2, blk) = BlockStart(t, blk)
              /\ RowAt(t2, BlockStat(t2, blk)).rid = RowAt(t, BlockStat(t, blk)).rid
              /\ Rids(SubSeq(t2.rows, 1, BlockStart(t2, blk)))
                   = Rids(SubSeq(t.rows, 1, BlockStart(t, blk)))
              /\ Rids(SubSeq(t2.rows, BlockStat(t2, blk) + 1, NRows(t2)))
                   = Rids(SubSeq(t.rows, BlockStat(t, blk) + 1, NRows(t)))]_vars

----------------------------------------------------------------------------
(* Function specifications: the generators stand idle, a function is        *)
(* called once on arguments drawn from a bounded set.                       *)
Idle ==
    /\ variant = "none"
    /\ groups = <<>>
    /\ include = FALSE
    /\ mergeOk = FALSE
    /\ tpl = "none"
    /\ slides = <<>>
    /\ P = 0
    /\ total_slides = 0
    /\ slide_idx = 0
    /\ blk = 0
    /\ row_offset = 0
    /\ result = "none"
    /\ disk = {}
    /\ gui = "none"

IdleVars == <<variant, groups, include, mergeOk, tpl, slides, P, total_slides,
              slide_idx, blk, row_offset, result, disk, gui>>

RECURSIVE SeqsUpTo(_, _)
(* The sequences over S of length 1..n. *)
SeqsUpTo(S, n) ==
    IF n = 0 THEN {}
    ELSE SeqsUpTo(S, n - 1) \cup [1..n -> S]

(* delete_table_column on a table of one arbitrary row, alone or above a    *)
(* row of unmerged cells.                                                   *)
ColCells ==
    {Cell(FALSE, 1, FALSE, TplText)}
    \cup {Cell(TRUE, sp, FALSE, TplText) : sp \in 1..MaxSpan}

ColTables ==
    {[grid |-> n, rows |-> <<MkRow(cs, 1)>>] :
        n \in 1..MaxGridCols, cs \in SeqsUpTo(ColCells, MaxCells)}
    \cup
    {[grid |-> n, rows |-> <<MkRow(cs, 1), MkRow(Ones(n, TRUE, TplText), 2)>>] :
        n \in 1..MaxGridCols, cs \in SeqsUpTo(ColCells, MaxCells)}

InitCol ==
    /\ Idle
    /\ pc = "call"
    /\ fn_in \in {[table |-> t, col_idx |-> c] :
                    t \in ColTables, c \in 0..(MaxGridCols - 1)}
    /\ fn_in.col_idx < fn_in.table.grid
    /\ fn_out = "none"

CallDeleteColumn ==
    /\ pc = "call"
    /\ fn_out' = delete_table_column(fn_in.table, fn_in.col_idx)
    /\ pc' = "ret"
    /\ UNCHANGED fn_in
    /\ UNCHANGED IdleVars

NextCol == CallDeleteColumn

SpecCol == InitCol /\ [][NextCol]_vars

(* The number of grid columns the first i cells of a row cover. *)
RECURSIVE PrefixSpan(_, _)
PrefixSpan(cells, i) ==
    IF i = 0 THEN 0 ELSE PrefixSpan(cells, i - 1) + GridSpanOf(cells[i])

(* The cells of a row whose span covers grid column c (at most one). *)
Covering(row, c) ==
    {i \in 1..NCells(row) :
        PrefixSpan(row.cells, i - 1) <= c /\ c < PrefixSpan(row.cells, i)}

(* C5: delete_table_column(table, c) with c inside the grid removes, in     *)
(* every row, the cell covering column c when its span is 1 and keeps it    *)
(* with the span decremented when its span is greater; the grid loses       *)
(* exactly one column; so rows that summed to the column count still do.    *)
C5_DeleteColumn ==
    pc = "ret" =>
        LET t == fn_in.table
            c == fn_in.col_idx
            o == fn_out
        IN  /\ o.grid = t.grid - 1
            /\ Len(o.rows) = Len(t.rows)
            /\ \A r \in 1..Len(t.rows) :
                  LET row == t.rows[r]
                      out == o.rows[r]
                  IN  /\ Covering(row, c) = {} => out = row
                      /\ \A i \in Covering(row, c) :
                            IF GridSpanOf(row.cells[i]) = 1
                            THEN out.cells = RemoveAt(row.cells, i)
                            ELSE /\ NCells(out) = NCells(row)
                                 /\ out.cells[i].span = row.cells[i].span - 1
                                 /\ \A j \in 1..NCells(row) :
                                       j # i => out.cells[j] = row.cells[j]
            /\ (WellFormed(t) => WellFormed(o))

(* A two-row table whose rows sum to the column count, one row with a       *)
(* span-3 cell over the column (decremented to 2), one with a span-1 cell   *)
(* (removed).                                                               *)
C5_Witness ==
    /\ pc = "ret"
    /\ WellFormed(fn_in.table)
    /\ Len(fn_in.table.rows) = 2
    /\ \E i \in Covering(fn_in.table.rows[1], fn_in.col_idx) :
          /\ fn_in.table.rows[1].cells[i].span = 3
          /\ fn_out.rows[1].cells[i].span = 2
          /\ NCells(fn_out.rows[1]) = NCells(fn_in.table.rows[1])
    /\ NCells(fn_out.rows[2]) = NCells(fn_in.table.rows[2]) - 1
    /\ fn_out.grid = fn_in.table.grid - 1

----------------------------------------------------------------------------
(* Identifier parsing of the extractors.  A string is a sequence of         *)
(* characters; "fw(" and "fw)" stand for the full-width brackets, "A" for a *)
(* letter, "7" for a digit, " " for white space.                            *)
IdChars == {"A", "7", "-", "(", ")", "fw(", "fw)", " "}
OpenBr == {"(", "fw("}
CloseBr == {")", "fw)"}
Digits == {"7"}
Sep == "-"

(* str.strip(). *)
RECURSIVE LStrip(_)
LStrip(str) ==
    IF Len(str) > 0 /\ str[1] = " " THEN LStrip(Tail(str)) ELSE str

RECURSIVE RStrip(_)
RStrip(str) ==
    IF Len(str) > 0 /\ str[Len(str)] = " "
    THEN RStrip(SubSeq(str, 1, Len(str) - 1)) ELSE str

Strip(str) == RStrip(LStrip(str))

(* The first position >= i that holds a closing bracket, 0 when none. *)
RECURSIVE NextClose(_, _, _)
NextClose(str, i, closers) ==
    IF i > Len(str) THEN 0
    ELSE IF str[i] \in closers THEN i
    ELSE NextClose(str, i + 1, closers)

(* re.sub(pattern, '', s) for an opening bracket, a shortest stretch and a   *)
(* closing bracket: matches are taken leftmost first and never overlap.     *)
RECURSIVE SubBrackets(_, _, _, _)
SubBrackets(str, i, openers, closers) ==
    IF i > Len(str) THEN <<>>
    ELSE IF str[i] \in openers /\ NextClose(str, i + 1, closers) # 0
    THEN SubBrackets(str, NextClose(str, i + 1, closers) + 1, openers, closers)
    ELSE <<str[i]>> \o SubBrackets(str, i + 1, openers, closers)

(* Mutant of RemoveAnnotations: only the ASCII brackets are matched. *)
RemoveAnnotations_AsciiOnly(str) == SubBrackets(str, 1, {"("}, {")"})

(* re.sub(r'[\(（].*?[\)）]', '', s) *)
RemoveAnnotations(str) == SubBrackets(str, 1, OpenBr, CloseBr)

Contains(str, ch) == \E i \in 1..Len(str) : str[i] = ch

(* The last position of ch in str, 0 when none. *)
RECURSIVE LastIndex(_, _, _)
LastIndex(str, ch, i) ==
    IF i = 0 THEN 0
    ELSE IF str[i] = ch THEN i
    ELSE LastIndex(str, ch, i - 1)

(* s.rsplit(sep, 1) of a string that contains sep. *)
RSplit1(str, ch) ==
    LET i == LastIndex(str, ch, Len(str)) IN
    <<SubSeq(str, 1, i - 1), SubSeq(str, i + 1, Len(str))>>

(* What an extractor makes of one identifier cell: no record (the row is    *)
(* skipped) or a record.                                                    *)
NoRecord == [made |-> FALSE, raw |-> <<>>, clean |-> <<>>, group_name |-> <<>>,
             id_num |-> <<>>, has_note |-> FALSE]
Record(raw, clean, group_name, id_num, has_note) ==
    [made |-> TRUE, raw |-> raw, clean |-> clean, group_name |-> group_name,
     id_num |-> id_num, has_note |-> has_note]

(* extract_from_docx, the identifier of one table row. *)
DocxIdentifier(text) ==
    LET full_id == Strip(text)
        clean_id == Strip(RemoveAnnotations(full_id))
        has_note == clean_id # full_id
    IN  IF full_id = <<>> THEN NoRecord
        ELSE IF Contains(clean_id, Sep)
        THEN Record(full_id, clean_id, RSplit1(clean_id, Sep)[1],
                    RSplit1(clean_id, Sep)[2], has_note)
        ELSE Record(full_id, clean_id, clean_id, <<"1">>, has_note)

(* extract_from_excel, the identifier of one sheet row. *)
ExcelIdentifier(text) ==
    LET raw_id == Strip(text)
        clean_id == Strip(RemoveAnnotations(raw_id))
        has_note == clean_id # raw_id
    IN  IF ~Contains(clean_id, Sep)
           \/ ~(Len(clean_id) > 0 /\ clean_id[Len(clean_id)] \in Digits)
        THEN NoRecord
        ELSE Record(raw_id, clean_id, RSplit1(clean_id, Sep)[1],
                    RSplit1(clean_id, Sep)[2], has_note)

(* process_vda_report: the blank-identifier filter and parse_group.  The    *)
(* VDA records carry no annotation flag.                                    *)
VdaIdentifier(text) ==
    LET sid == Strip(text) IN
    IF sid = <<>> THEN NoRecord
    ELSE IF Contains(sid, Sep)
    THEN Record(sid, sid, RSplit1(sid, Sep)[1], RSplit1(sid, Sep)[2], FALSE)
    ELSE Record(sid, sid, sid, <<"1">>, FALSE)

Extractors == {"docx", "excel", "vda"}

InitId ==
    /\ Idle
    /\ pc = "call"
    /\ fn_in \in {[text |-> t] : t \in SeqsUpTo(IdChars, MaxIdLen)}
    /\ fn_out = "none"

ReadIdentifier(ex, rec) ==
    /\ pc = "call"
    /\ fn_out' = [extractor |-> ex, rec |-> rec]
    /\ pc' = "ret"
    /\ UNCHANGED fn_in
    /\ UNCHANGED IdleVars

ReadDocx == ReadIdentifier("docx", DocxIdentifier(fn_in.text))
ReadExcel == ReadIdentifier("excel", ExcelIdentifier(fn_in.text))
ReadVda == ReadIdentifier("vda", VdaIdentifier(fn_in.text))

NextId ==
    \/ ReadDocx
    \/ ReadExcel
    \/ ReadVda

SpecId == InitId /\ [][NextId]_vars

(* The string carries a parenthetical annotation: an opening bracket with a *)
(* closing bracket somewhere after it.                                      *)
HasAnnotation(str) ==
    \E i \in 1..Len(str) : \E j \in (i + 1)..Len(str) :
        str[i] \in OpenBr /\ str[j] \in CloseBr

(* C7: every non-blank identifier read by an extractor gives a record; the  *)
(* identifier with its annotations stripped is split at its last "-" into   *)
(* group name and sample number, and without a "-" it is the group name     *)
(* and the sample number is "1".                                            *)
C7_SplitAtLastSeparator ==
    (pc = "ret" /\ Strip(fn_in.text) # <<>>) =>
        LET id == Strip(RemoveAnnotations(Strip(fn_in.text)))
            rec == fn_out.rec
        IN  /\ rec.made
            /\ Contains(id, Sep) =>
                  /\ rec.group_name \o <<Sep>> \o rec.id_num = id
                  /\ ~Contains(rec.id_num, Sep)
            /\ ~Contains(id, Sep) =>
                  /\ rec.group_name = id
                  /\ rec.id_num = <<"1">>

(* C8: a record of the Word or spreadsheet extractor is flagged exactly     *)
(* when its raw identifier carries an annotation in ASCII or full-width     *)
(* brackets, which is exactly when the cleaned identifier differs from the  *)
(* raw one; the cleaned identifier carries no annotation and is the one     *)
(* that is split into group name and sample number.                         *)
C8_FlaggedIffAnnotated ==
    (pc = "ret" /\ fn_out.extractor \in {"docx", "excel"} /\ fn_out.rec.made) =>
        LET rec == fn_out.rec IN
        /\ rec.raw = Strip(fn_in.text)
        /\ rec.has_note <=> HasAnnotation(rec.raw)
        /\ rec.has_note <=> rec.clean # rec.raw
        /\ ~HasAnnotation(rec.clean)
        /\ Len(rec.clean) <= Len(rec.raw)
        /\ IF Contains(rec.clean, Sep)
           THEN rec.group_name \o <<Sep>> \o rec.id_num = rec.clean
           ELSE rec.group_name = rec.clean

(* "A-7" followed by a full-width annotation gives the cleaned identifier   *)
(* "A-7", group "A", sample "7", flagged.                                  *)
C8_Witness ==
    /\ pc = "ret"
    /\ fn_out.extractor = "excel"
    /\ fn_in.text = <<"A", "-", "7", "fw(", "fw)">>
    /\ fn_out.rec.made
    /\ fn_out.rec.clean = <<"A", "-", "7">>
    /\ fn_out.rec.group_name = <<"A">>
    /\ fn_out.rec.id_num = <<"7">>
    /\ fn_out.rec.has_note

----------------------------------------------------------------------------
(* Statistics strings.  A number is an exact non-negative rational          *)
(* <<numerator, denominator>>; <<0, 0>> stands for a cell whose content     *)
(* does not parse as a number.  A string is a sequence of characters, "+-"  *)
(* standing for the plus-minus sign.                                        *)
NonNumeric == <<0, 0>>
IsNumeric(v) == v[2] # 0

RECURSIVE Gcd(_, _)
Gcd(a, b) == IF b = 0 THEN a ELSE Gcd(b, a % b)

Norm(q) ==
    IF q[1] = 0 THEN <<0, 1>>
    ELSE <<q[1] \div Gcd(q[1], q[2]), q[2] \div Gcd(q[1], q[2])>>
RAdd(p, q) ==
    LET g == Gcd(p[2], q[2])
    IN  Norm(<<p[1] * (q[2] \div g) + q[1] * (p[2] \div g), (p[2] \div g) * q[2]>>)
RDivInt(p, n) == Norm(<<p[1], p[2] * n>>)
(* (p - q)^2 *)
RSqDiff(p, q) ==
    LET g == Gcd(p[2], q[2])
        a == p[1] * (q[2] \div g)
        b == q[1] * (p[2] \div g)
        d == Norm(<<IF a >= b THEN a - b ELSE b - a, (p[2] \div g) * q[2]>>)
    IN  <<d[1] * d[1], d[2] * d[2]>>

(* ppt_utils.to_float: the number, 0.0 for what does not convert. *)
to_float(v) == IF IsNumeric(v) THEN Norm(v) ELSE <<0, 1>>

(* pd.to_numeric(series, errors='coerce').dropna() *)
NumericOnly(series) == SelectSeq(series, IsNumeric)

RECURSIVE RSum(_, _)
RSum(vals, i) == IF i > Len(vals) THEN <<0, 1>> ELSE RAdd(vals[i], RSum(vals, i + 1))

(* statistics.mean / Series.mean of a non-empty sequence. *)
Mean(vals) == RDivInt(RSum(vals, 1), Len(vals))

RECURSIVE SumSqDev(_, _, _)
SumSqDev(vals, m, i) ==
    IF i > Len(vals) THEN <<0, 1>>
    ELSE RAdd(RSqDiff(vals[i], m), SumSqDev(vals, m, i + 1))

(* Mutant of SampleVariance: the population variance (denominator n). *)
SampleVariance_Population(vals) ==
    RDivInt(SumSqDev(vals, Mean(vals), 1), Len(vals))

(* The square of statistics.stdev / Series.std(ddof=1): denominator n - 1.  *)
(* Both callers ask for it only when there are two values or more.          *)
SampleVariance(vals) ==
    RDivInt(SumSqDev(vals, Mean(vals), 1), Len(vals) - 1)

Pow10(d) == IF d = 0 THEN 1 ELSE 10

(* The integer nearest to n/d, a tie going to the even one: the rounding of *)
(* the format specification .Nf on a value that is exact in binary.         *)
RoundHalfEven(n, d) ==
    LET q == n \div d
        r == n % d
    IN  IF 2 * r < d THEN q
        ELSE IF 2 * r > d THEN q + 1
        ELSE IF q % 2 = 0 THEN q ELSE q + 1

(* The largest j with j * j <= f, by bisection between lo and hi. *)
RECURSIVE Bisect(_, _, _)
Bisect(f, lo, hi) ==
    IF hi - lo <= 1 THEN lo
    ELSE LET mid == (lo + hi) \div 2
         IN  IF mid <= f \div mid THEN Bisect(f, mid, hi) ELSE Bisect(f, lo, mid)

(* The integer nearest to sqrt(v) * 10^dec, a tie going to the even one:    *)
(* with j the largest integer such that j^2 <= 4 * v * 100^dec, it is       *)
(* (j + 1) div 2, unless j is odd and the equality is exact (a tie).        *)
RoundSqrt(v, dec) ==
    LET r4 == 4 * v[1] * Pow10(dec) * Pow10(dec)
        f  == r4 \div v[2]
        j  == Bisect(f, 0, f + 1)
        k  == (j + 1) \div 2
    IN  IF j % 2 = 1 /\ j * j = f /\ r4 % v[2] = 0 /\ k % 2 = 1 THEN k - 1 ELSE k

DigitChars == <<"0", "1", "2", "3", "4", "5", "6", "7", "8", "9">>

RECURSIVE IntDigits(_)
IntDigits(n) ==
    IF n < 10 THEN <<DigitChars[n + 1]>>
    ELSE IntDigits(n \div 10) \o <<DigitChars[(n % 10) + 1]>>

(* The text of k / 10^dec with dec decimals (dec is 0 or 1). *)
FixedText(k, dec) ==
    IF dec = 0 THEN IntDigits(k)
    ELSE IntDigits(k \div 10) \o <<".">> \o <<DigitChars[(k % 10) + 1]>>

(* f"{m:.{dec}f}" *)
FormatFixed(q, dec) == FixedText(RoundHalfEven(q[1] * Pow10(dec), q[2]), dec)

(* f"{s:.{dec}f}" for s the standard deviation of vals (0.0 for one value). *)
FormatStdev(vals, dec) ==
    IF Len(vals) > 1
    THEN FixedText(RoundSqrt(SampleVariance(vals), dec), dec)
    ELSE FixedText(0, dec)

PlusMinus == "+-"

(* f"{m:.Nf}±{s:.Nf}" *)
MeanStdText(vals, dec) == FormatFixed(Mean(vals), dec) \o <<PlusMinus>> \o FormatStdev(vals, dec)

Column(data, key) == [i \in 1..Len(data) |-> data[i][key]]

(* calculate_stats, one key: "/" for no value, else the text. *)
TensileStat(vals, dec) ==
    IF Len(vals) = 0 THEN <<"/">> ELSE MeanStdText(vals, dec)

(* calculate_stats on the items of a group: Rp and Rm with 0 decimals, Ag   *)
(* and A with 1 decimal; the empty mapping for an empty group.              *)
calculate_stats(group_data) ==
    IF Len(group_data) = 0 THEN [k \in {} |-> <<>>]
    ELSE [k \in {"Rp", "Rm", "Ag", "A"} |->
            TensileStat(Column(group_data, k), IF k \in {"Rp", "Rm"} THEN 0 ELSE 1)]

(* set_stat_cell: the text written for a series (factor is 1.0 in every     *)
(* call).                                                                   *)
set_stat_cell(series, decimals) ==
    LET vals == NumericOnly(series) IN
    IF Len(vals) = 0 THEN <<"-">> ELSE MeanStdText(vals, decimals)

(* The force series of fill_stats_row: coerced to numbers, divided by 1000  *)
(* for kN.                                                                  *)
ForceSeries(series, unit) ==
    [i \in 1..Len(series) |->
        IF IsNumeric(series[i]) /\ unit = "kN" THEN RDivInt(series[i], 1000)
        ELSE series[i]]

(* fill_stats_row: the four statistics texts of a group (include_disp on).  *)
VdaStats(data, unit) ==
    [k \in {"Thickness", "MaxForce", "Displacement", "Angle"} |->
        set_stat_cell(IF k = "MaxForce" THEN ForceSeries(Column(data, k), unit)
                      ELSE Column(data, k), 1)]

(* The cell contents the groups are drawn from: a text that is no number,   *)
(* 100.0, 100.5 and 102.0.                                                  *)
RawValues == {NonNumeric, <<200, 2>>, <<201, 2>>, <<204, 2>>}

(* The rows of a group as read from the source.  Two cells are drawn per    *)
(* row, the first from all of RawValues, the second a text or 100.5; each   *)
(* feeds one field of either precision.                                     *)
SecondValues == {NonNumeric, <<201, 2>>}
TensileRows ==
    {[Rp |-> a, Rm |-> b, Ag |-> b, A |-> a] : a \in RawValues, b \in SecondValues}
VdaRows ==
    {[Thickness |-> a, MaxForce |-> b, Displacement |-> b, Angle |-> a] :
        a \in RawValues, b \in SecondValues}

(* The item extract_from_docx / extract_from_excel stores for a row. *)
TensileItem(row) == [k \in DOMAIN row |-> to_float(row[k])]

InitStats ==
    /\ Idle
    /\ pc = "call"
    /\ \/ fn_in \in {[proc |-> "tensile", unit |-> "", rows |-> rs] :
                        rs \in SeqsUpTo(TensileRows, MaxStatN)}
       \/ fn_in \in {[proc |-> "vda", unit |-> u, rows |-> rs] :
                        u \in {"kN", "N"}, rs \in SeqsUpTo(VdaRows, MaxStatN)}
    /\ fn_out = "none"

(* Extraction of the group's items, then calculate_stats. *)
CallCalculateStats ==
    /\ pc = "call"
    /\ fn_in.proc = "tensile"
    /\ fn_out' = calculate_stats([i \in 1..Len(fn_in.rows) |-> TensileItem(fn_in.rows[i])])
    /\ pc' = "ret"
    /\ UNCHANGED fn_in
    /\ UNCHANGED IdleVars

CallFillStatsRow ==
    /\ pc = "call"
    /\ fn_in.proc = "vda"
    /\ fn_out' = VdaStats(fn_in.rows, fn_in.unit)
    /\ pc' = "ret"
    /\ UNCHANGED fn_in
    /\ UNCHANGED IdleVars

NextStats ==
    \/ CallCalculateStats
    \/ CallFillStatsRow

SpecStats == InitStats /\ [][NextStats]_vars

----------------------------------------------------------------------------
(* Claims about the statistics strings.  They are stated on the returned    *)
(* text, read back as decimal numbers, against the mean and the variance    *)
(* recomputed over a common denominator.                                    *)
DigitSet == {DigitChars[i] : i \in 1..10}
DigitVal(c) == CHOOSE i \in 0..9 : DigitChars[i + 1] = c
IsDigits(t) == Len(t) >= 1 /\ \A i \in 1..Len(t) : t[i] \in DigitSet

RECURSIVE NatOf(_)
NatOf(t) ==
    IF Len(t) = 0 THEN 0
    ELSE 10 * NatOf(SubSeq(t, 1, Len(t) - 1)) + DigitVal(t[Len(t)])

(* t is a decimal numeral with exactly dec decimals. *)
FixedOk(t, dec) ==
    IF dec = 0 THEN IsDigits(t)
    ELSE /\ Len(t) >= 3
         /\ t[Len(t) - 1] = "."
         /\ IsDigits(SubSeq(t, 1, Len(t) - 2))
         /\ t[Len(t)] \in DigitSet

(* Its value in units of 10^-dec. *)
FixedVal(t, dec) ==
    IF dec = 0 THEN NatOf(t)
    ELSE 10 * NatOf(SubSeq(t, 1, Len(t) - 2)) + DigitVal(t[Len(t)])

SignAt(t) == CHOOSE i \in 1..Len(t) : t[i] = PlusMinus
HasOneSign(t) == Cardinality({i \in 1..Len(t) : t[i] = PlusMinus}) = 1
MeanPart(t) == SubSeq(t, 1, SignAt(t) - 1)
StdPart(t) == SubSeq(t, SignAt(t) + 1, Len(t))

RECURSIVE Lcm(_, _)
Lcm(vals, i) ==
    IF i > Len(vals) THEN 1
    ELSE LET l == Lcm(vals, i + 1) IN (vals[i][2] \div Gcd(vals[i][2], l)) * l

(* The values as integers over their common denominator L. *)
Scaled(vals) == [i \in 1..Len(vals) |-> vals[i][1] * (Lcm(vals, 1) \div vals[i][2])]

RECURSIVE IntSum(_, _)
IntSum(xs, i) == IF i > Len(xs) THEN 0 ELSE xs[i] + IntSum(xs, i + 1)

RECURSIVE IntSumSq(_, _)
IntSumSq(xs, i) == IF i > Len(xs) THEN 0 ELSE xs[i] * xs[i] + IntSumSq(xs, i + 1)

Abs(x) == IF x >= 0 THEN x ELSE 0 - x

(* m (in units of 10^-dec) is a nearest such number to the mean of vals. *)
IsRoundedMean(m, vals, dec) ==
    LET n == Len(vals)
        L == Lcm(vals, 1)
    IN  Abs(2 * m * n * L - 2 * IntSum(Scaled(vals), 1) * Pow10(dec)) <= n * L

(* s (in units of 10^-dec) is a nearest such number to the sample standard  *)
(* deviation of vals, whose square is (n*Sum(x^2) - Sum(x)^2) / (n*(n-1)).  *)
IsRoundedSampleStdev(s, vals, dec) ==
    LET n  == Len(vals)
        L  == Lcm(vals, 1)
        xs == Scaled(vals)
        q  == n * IntSumSq(xs, 1) - IntSum(xs, 1) * IntSum(xs, 1)
        d  == n * (n - 1) * L * L
        r4 == 4 * q * Pow10(dec) * Pow10(dec)
    IN  /\ (s = 0 \/ (2 * s - 1) * (2 * s - 1) * d <= r4)
        /\ r4 <= (2 * s + 1) * (2 * s + 1) * d

(* The values of field k the aggregator works on: the items' numbers for    *)
(* the tensile processor, the cells that are numbers for the VDA processor  *)
(* (the force in the reporting unit).                                       *)
FieldValues(k) ==
    IF fn_in.proc = "tensile"
    THEN [i \in 1..Len(fn_in.rows) |-> TensileItem(fn_in.rows[i])[k]]
    ELSE NumericOnly(IF k = "MaxForce"
                     THEN ForceSeries(Column(fn_in.rows, k), fn_in.unit)
                     ELSE Column(fn_in.rows, k))

(* The decimals of field k: 0 for Rp and Rm, 1 for every other field. *)
FieldDecimals(k) == IF k \in {"Rp", "Rm"} THEN 0 ELSE 1

StatsReturned == pc = "ret"

(* C9: for every field of a group that has at least one value, the          *)
(* statistics string is the mean, the plus-minus sign, the standard         *)
(* deviation, both with the field's number of decimals (0 for Rp and Rm, 1  *)
(* for Ag, A and the VDA fields); the standard deviation is the sample one  *)
(* (denominator n - 1) for two values or more and 0 for exactly one.        *)
C9_MeanPlusMinusStdev ==
    StatsReturned =>
        \A k \in DOMAIN fn_out :
            LET vals == FieldValues(k)
                dec  == FieldDecimals(k)
                t    == fn_out[k]
            IN  Len(vals) >= 1 =>
                    /\ HasOneSign(t)
                    /\ FixedOk(MeanPart(t), dec)
                    /\ FixedOk(StdPart(t), dec)
                    /\ IsRoundedMean(FixedVal(MeanPart(t), dec), vals, dec)
                    /\ IF Len(vals) = 1
                       THEN FixedVal(StdPart(t), dec) = 0
                       ELSE IsRoundedSampleStdev(FixedVal(StdPart(t), dec), vals, dec)

(* A tensile group of two rows, 100 and 102 for Rp and for A, has returned  *)
(* 101 and 1 without decimals for Rp, 101.0 and 1.4 for A.                  *)
C9_Witness ==
    /\ StatsReturned
    /\ fn_in.proc = "tensile"
    /\ Len(fn_in.rows) = 2
    /\ fn_in.rows[1].Rp = <<200, 2>> /\ fn_in.rows[2].Rp = <<204, 2>>
    /\ fn_in.rows[1].A = <<200, 2>> /\ fn_in.rows[2].A = <<204, 2>>
    /\ fn_out.Rp = <<"1", "0", "1", PlusMinus, "1">>
    /\ fn_out.A = <<"1", "0", "1", ".", "0", PlusMinus, "1", ".", "4">>

(* The cells of field k as read from the source. *)
RawColumn(k) == Column(fn_in.rows, k)

(* C10: a field without any valid numeric value in a group gets the         *)
(* sentinel "/" as its statistics string, and the other fields of the       *)
(* group still get their mean and standard deviation.                       *)
C10_SentinelForEmptyField ==
    (StatsReturned /\ Len(fn_in.rows) >= 1) =>
        \A k \in DOMAIN fn_out :
            IF Len(NumericOnly(RawColumn(k))) = 0
            THEN fn_out[k] = <<"/">>
            ELSE HasOneSign(fn_out[k])

----------------------------------------------------------------------------
(* The data rows and the statistics row of one group, as the generators     *)
(* write them: the text of every field's cell in every data row, and the    *)
(* statistics texts.                                                        *)

(* The text a source cell holds when it is not a number. *)
NonNumericText == <<"n", ".", "a", ".">>

(* str(x) for a float x with at most one decimal: the shortest repr, which  *)
(* always shows one decimal.                                                *)
FloatStr(q) == FixedText(RoundHalfEven(q[1] * 10, q[2]), 1)

(* f"{x:.2f}" *)
FormatFixed2(q) ==
    LET k == RoundHalfEven(q[1] * 100, q[2])
    IN  IntDigits(k \div 100) \o <<".">>
            \o <<DigitChars[((k \div 10) % 10) + 1]>> \o <<DigitChars[(k % 10) + 1]>>

(* generate_report, 填数据: str(item[key]) of the stored item. *)
TensileCellText(item, k) == FloatStr(item[k])

(* fill_group_data: the formatted to_float of the row's cell, the force     *)
(* divided by 1000 for kN and shown with one decimal.                       *)
VdaCellText(row, k, unit) ==
    IF k = "MaxForce"
    THEN FormatFixed(IF unit = "kN" THEN RDivInt(to_float(row[k]), 1000)
                     ELSE to_float(row[k]), 1)
    ELSE FormatFixed2(to_float(row[k]))

InitRows == InitStats

(* extraction, calculate_stats and the fill of the block's rows. *)
FillTensileGroup ==
    /\ pc = "call"
    /\ fn_in.proc = "tensile"
    /\ LET items == [i \in 1..Len(fn_in.rows) |-> TensileItem(fn_in.rows[i])]
       IN  fn_out' = [stats |-> calculate_stats(items),
                      cells |-> [i \in 1..Len(items) |->
                                    [k \in {"Rp", "Rm", "Ag", "A"} |->
                                        TensileCellText(items[i], k)]]]
    /\ pc' = "ret"
    /\ UNCHANGED fn_in
    /\ UNCHANGED IdleVars

(* fill_group_data and fill_stats_row. *)
FillVdaGroup ==
    /\ pc = "call"
    /\ fn_in.proc = "vda"
    /\ fn_out' = [stats |-> VdaStats(fn_in.rows, fn_in.unit),
                  cells |-> [i \in 1..Len(fn_in.rows) |->
                                [k \in {"Thickness", "MaxForce", "Displacement", "Angle"} |->
                                    VdaCellText(fn_in.rows[i], k, fn_in.unit)]]]
    /\ pc' = "ret"
    /\ UNCHANGED fn_in
    /\ UNCHANGED IdleVars

NextRows ==
    \/ FillTensileGroup
    \/ FillVdaGroup

SpecRows == InitRows /\ [][NextRows]_vars

(* The numeric cells of field k, the force in the reporting unit. *)
NumericValues(k) ==
    NumericOnly(IF k = "MaxForce" /\ fn_in.proc = "vda"
                THEN ForceSeries(Column(fn_in.rows, k), fn_in.unit)
                ELSE Column(fn_in.rows, k))

(* C11: a record whose cell for a field is non-numeric text is left out of  *)
(* that field's mean and standard deviation (the statistics are those of    *)
(* the field's numeric cells), it still has its own data row, and its cell  *)
(* for that field shows the source text unchanged.                          *)
C11_NonNumericExcludedAndPassedThrough ==
    pc = "ret" =>
        /\ Len(fn_out.cells) = Len(fn_in.rows)
        /\ \A i \in 1..Len(fn_in.rows) :
              \A k \in DOMAIN fn_in.rows[i] :
                  ~IsNumeric(fn_in.rows[i][k]) =>
                      /\ fn_out.cells[i][k] = NonNumericText
                      /\ Len(NumericValues(k)) >= 1 =>
                            /\ HasOneSign(fn_out.stats[k])
                            /\ FixedOk(MeanPart(fn_out.stats[k]), FieldDecimals(k))
                            /\ IsRoundedMean(FixedVal(MeanPart(fn_out.stats[k]), FieldDecimals(k)),
                                             NumericValues(k), FieldDecimals(k))

----------------------------------------------------------------------------
(* The order of a group's records in the rows written for it.  A group is   *)
(* the sequence of its records' sample numbers in source order; a sample    *)
(* number is a positive integer, or NotAnInt for a text int() rejects.  The *)
(* result is the sequence of source positions in row order.                 *)
NotAnInt == 0
SampleNumbers == {NotAnInt, 1, 2, 3}

AllInts(nums) == \A i \in 1..Len(nums) : nums[i] # NotAnInt

RowOrders(n) ==
    {p \in [1..n -> 1..n] : \A i, j \in 1..n : i # j => p[i] # p[j]}

(* sort_values('Number'): any arrangement with ascending numbers (the       *)
(* default sort kind does not promise an order among equal keys).           *)
SortedOrders(nums) ==
    {p \in RowOrders(Len(nums)) :
        \A i, j \in 1..Len(nums) : i < j => nums[p[i]] <= nums[p[j]]}

SourceOrder(nums) == [i \in 1..Len(nums) |-> i]

(* process_table_chunk: astype(int) then sort_values, the whole inside a    *)
(* try whose handler passes.                                                *)
VdaRowOrders(nums) ==
    IF AllInts(nums) THEN SortedOrders(nums) ELSE {SourceOrder(nums)}

(* generate_report: item = data[k] for row k, data in the order the         *)
(* extractor appended the items.                                            *)
TensileRowOrders(nums) == {SourceOrder(nums)}

InitOrder ==
    /\ Idle
    /\ pc = "call"
    /\ fn_in \in {[proc |-> pr, numbers |-> ns] :
                    pr \in {"tensile", "vda"}, ns \in SeqsUpTo(SampleNumbers, MaxSamples)}
    /\ fn_out = "none"

WriteTensileRows ==
    /\ pc = "call"
    /\ fn_in.proc = "tensile"
    /\ fn_out' \in TensileRowOrders(fn_in.numbers)
    /\ pc' = "ret"
    /\ UNCHANGED fn_in
    /\ UNCHANGED IdleVars

WriteVdaRows ==
    /\ pc = "call"
    /\ fn_in.proc = "vda"
    /\ fn_out' \in VdaRowOrders(fn_in.numbers)
    /\ pc' = "ret"
    /\ UNCHANGED fn_in
    /\ UNCHANGED IdleVars

NextOrder ==
    \/ WriteTensileRows
    \/ WriteVdaRows

SpecOrder == InitOrder /\ [][NextOrder]_vars

(* C12: the rows written for a group hold each of its records once, in      *)
(* ascending order of sample number when every sample number of the group   *)
(* is an integer, and in source order otherwise.                            *)
C12_RowsOrderedByNumber ==
    pc = "ret" =>
        LET nums == fn_in.numbers IN
        /\ fn_out \in RowOrders(Len(nums))
        /\ IF AllInts(nums)
           THEN \A i, j \in 1..Len(nums) : i < j => nums[fn_out[i]] <= nums[fn_out[j]]
           ELSE fn_out = SourceOrder(nums)

----------------------------------------------------------------------------
(* processor.parse_hardness_report.  A document is a sequence of pages, a   *)
(* page a sequence of tables, a table a sequence of rows (the first is the  *)
(* header), a row a sequence of cells, a cell a text (a sequence of         *)
(* characters) or NoCell for None.  "ping" "jun" stand for the two          *)
(* characters of 平均, "biao" "zhun" "cha" for 标准差, "nl" for a newline.  *)
NoCell == <<"None">>
Nl == "nl"

IsSubstr(pat, str) ==
    \E i \in 0..(Len(str) - Len(pat)) : SubSeq(str, i + 1, i + Len(pat)) = pat

(* str(cell).strip() if cell else "" (the texts drawn here have no outer    *)
(* blanks).                                                                 *)
CleanCell(cell) == IF cell = NoCell \/ cell = <<>> THEN <<>> ELSE cell

(* " ".join(cells) *)
RECURSIVE JoinSp(_, _)
JoinSp(cells, i) ==
    IF i > Len(cells) THEN <<>>
    ELSE IF i = Len(cells) THEN cells[i]
    ELSE cells[i] \o <<" ">> \o JoinSp(cells, i + 1)

(* text.replace("\n", "") *)
RemoveNl(str) == SelectSeq(str, LAMBDA ch : ch # Nl)

(* "SD" in s or "Std" in s *)
HasSdToken(str) ==
    IsSubstr(<<"S", "D">>, str) \/ IsSubstr(<<"S", "t", "d">>, str)

(* "平均" in s or "Average" in s or "Mean" in s *)
HasMeanToken(str) ==
    \/ IsSubstr(<<"ping", "jun">>, str)
    \/ IsSubstr(<<"A", "v", "e", "r", "a", "g", "e">>, str)
    \/ IsSubstr(<<"M", "e", "a", "n">>, str)

(* The test on header_str that admits a table as a statistics table. *)
IsStatHeader(header) ==
    LET header_str == RemoveNl(JoinSp(header, 1))
    IN  HasSdToken(header_str) /\ HasMeanToken(header_str)

(* The last column whose name passes the test, 0 when none does (the loop   *)
(* over the header overwrites the index at every match).                    *)
LastCol(header, Test(_)) ==
    LET hits == {i \in 1..Len(header) : Test(RemoveNl(header[i]))}
    IN  IF hits = {} THEN 0 ELSE CHOOSE i \in hits : \A j \in hits : j <= i

MeanIdx(header) == LastCol(header, HasMeanToken)
SdIdx(header) == LastCol(header, HasSdToken)

(* float(text) succeeds on the texts made of digits and one point. *)
IsFloatText(str) ==
    /\ Len(str) >= 1
    /\ \A i \in 1..Len(str) : str[i] \in {"0", "1", "2", "3", "4", "5", "6", "7", "8", "9", "."}
    /\ Cardinality({i \in 1..Len(str) : str[i] = "."}) <= 1
    /\ \E i \in 1..Len(str) : str[i] # "."

(* The value stored for a cell: the number when both cells convert, the     *)
(* text itself otherwise.                                                   *)
PdfValue(str, bothConvert) == IF bothConvert THEN <<"float", str>> ELSE <<"str", str>>

(* Mutant of PdfRows: the counter restarts at 1 in every table. *)
RECURSIVE PdfRows_RestartPerTable(_, _, _, _, _, _)
PdfRows_RestartPerTable(rows, r, mean_idx, sd_idx, counter, data) ==
    IF r > Len(rows) THEN [auto_id_counter |-> 1, extracted_data |-> data]
    ELSE IF Len(rows[r]) < mean_idx \/ Len(rows[r]) < sd_idx
              \/ rows[r][mean_idx] = <<>> \/ rows[r][sd_idx] = <<>>
         THEN PdfRows_RestartPerTable(rows, r + 1, mean_idx, sd_idx, counter, data)
         ELSE LET conv == IsFloatText(rows[r][mean_idx]) /\ IsFloatText(rows[r][sd_idx])
              IN  PdfRows_RestartPerTable(rows, r + 1, mean_idx, sd_idx, counter + 1,
                      Append(data, [id   |-> counter,
                                    mean |-> PdfValue(rows[r][mean_idx], conv),
                                    sd   |-> PdfValue(rows[r][sd_idx], conv)]))

(* The loop over the data rows of a statistics table: the counter and the   *)
(* records after row r and the rows that follow it.  The id is str(counter) *)
(* and is kept here as the number it prints.                                *)
RECURSIVE PdfRows(_, _, _, _, _, _)
PdfRows(rows, r, mean_idx, sd_idx, counter, data) ==
    IF r > Len(rows) THEN [auto_id_counter |-> counter, extracted_data |-> data]
    ELSE IF Len(rows[r]) < mean_idx \/ Len(rows[r]) < sd_idx
              \/ rows[r][mean_idx] = <<>> \/ rows[r][sd_idx] = <<>>
         THEN PdfRows(rows, r + 1, mean_idx, sd_idx, counter, data)
         ELSE LET conv == IsFloatText(rows[r][mean_idx]) /\ IsFloatText(rows[r][sd_idx])
              IN  PdfRows(rows, r + 1, mean_idx, sd_idx, counter + 1,
                      Append(data, [id   |-> counter,
                                    mean |-> PdfValue(rows[r][mean_idx], conv),
                                    sd   |-> PdfValue(rows[r][sd_idx], conv)]))

(* One table of the loop over a page's tables. *)
PdfTable(table, counter, data) ==
    LET clean_table == [r \in 1..Len(table) |->
                           [c \in 1..Len(table[r]) |-> CleanCell(table[r][c])]]
    IN  IF Len(clean_table) < 2 \/ ~IsStatHeader(clean_table[1])
           \/ MeanIdx(clean_table[1]) = 0 \/ SdIdx(clean_table[1]) = 0
        THEN [auto_id_counter |-> counter, extracted_data |-> data]
        ELSE PdfRows(SubSeq(clean_table, 2, Len(clean_table)), 1,
                     MeanIdx(clean_table[1]), SdIdx(clean_table[1]), counter, data)

(* The header words and the data cells the documents are made of. *)
HeaderWords ==
    { <<"M", "e", "a", "n">>, <<"m", "e", "a", "n">>,
      <<"A", "v", "e", "r", "a", "g", "e">>, <<"ping", "jun", "zhi">>,
      <<"S", "D">>, <<"s", "d">>, <<"S", "t", "d">>, <<"S", Nl, "D">>,
      <<"biao", "zhun", "cha">>, <<"H", "V">> }
IdWord == <<"I", "D">>
PrintedId == <<"7">>
DataCells3 == {NoCell, <<"1", ".", "5">>, <<"x">>}

PdfDataRows ==
    {<<PrintedId>>} \cup {<<PrintedId, a, b>> : a \in DataCells3, b \in DataCells3}

GoodHeader == <<IdWord, <<"M", "e", "a", "n">>, <<"S", "D">>>>
OtherHeader == <<IdWord, <<"H", "V">>, <<"S", "D">>>>

(* Tables for the numbering: a header that qualifies or one that does not,  *)
(* over up to MaxPdfRows data rows. *)
PdfRowSeqs == {<<>>} \cup SeqsUpTo(PdfDataRows, MaxPdfRows)
NumberingTables == {<<h>> \o rs : h \in {GoodHeader, OtherHeader}, rs \in PdfRowSeqs}

(* Tables for the header test: any two header words, one complete data row. *)
HeaderTables ==
    {<< <<IdWord, h1, h2>>, <<PrintedId, <<"1", ".", "5">>, <<"0", ".", "2">>>> >> :
        h1 \in HeaderWords, h2 \in HeaderWords}

FullTable == <<GoodHeader, <<PrintedId, <<"1", ".", "5">>, <<"0", ".", "2">>>>>>

PdfDocuments ==
    {<< <<t>> >> : t \in HeaderTables}
    \cup {<< <<t>> >> : t \in NumberingTables}
    \cup {<< <<FullTable, t>> >> : t \in NumberingTables}
    \cup {<< <<t>>, <<>>, <<FullTable>> >> : t \in NumberingTables}
    \cup {<< <<t, FullTable>>, <<FullTable>> >> : t \in NumberingTables}

InitPdf ==
    /\ Idle
    /\ pc = "call"
    /\ fn_in \in PdfDocuments
    /\ fn_out = "none"

(* with pdfplumber.open(file_path) as pdf: the counter starts at 1. *)
PdfOpen ==
    /\ pc = "call"
    /\ fn_in \in PdfDocuments
    /\ pc' = "pdf"
    /\ fn_out' = [page |-> 1, tbl |-> 1, auto_id_counter |-> 1, extracted_data |-> <<>>]
    /\ UNCHANGED fn_in
    /\ UNCHANGED IdleVars

(* A page whose tables are all done (or that has none): the next page. *)
PdfNextPage ==
    /\ pc = "pdf"
    /\ fn_out.page <= Len(fn_in)
    /\ fn_out.tbl > Len(fn_in[fn_out.page])
    /\ fn_out' = [fn_out EXCEPT !.page = @ + 1, !.tbl = 1]
    /\ UNCHANGED <<pc, fn_in>>
    /\ UNCHANGED IdleVars

PdfNextTable ==
    /\ pc = "pdf"
    /\ fn_out.page <= Len(fn_in)
    /\ fn_out.tbl <= Len(fn_in[fn_out.page])
    /\ LET res == PdfTable(fn_in[fn_out.page][fn_out.tbl],
                           fn_out.auto_id_counter, fn_out.extracted_data)
       IN  fn_out' = [fn_out EXCEPT !.tbl = @ + 1,
                                    !.auto_id_counter = res.auto_id_counter,
                                    !.extracted_data = res.extracted_data]
    /\ UNCHANGED <<pc, fn_in>>
    /\ UNCHANGED IdleVars

(* The number of records gathered so far (a ghost of the return steps). *)
Gathered == IF pc = "pdf" THEN Len(fn_out.extracted_data) ELSE 0

(* Mutant of PdfRaise: the error entry is appended to the records gathered  *)
(* so far.                                                                  *)
PdfRaise_KeepsRecords ==
    /\ pc \in {"call", "pdf"}
    /\ fn_in \in PdfDocuments
    /\ pc' = "ret"
    /\ fn_out' = [error |-> TRUE, gathered |-> Gathered,
                  returned |-> (IF pc = "pdf" THEN fn_out.extracted_data ELSE <<>>)
                               \o <<[error |-> "e"]>>]
    /\ UNCHANGED fn_in
    /\ UNCHANGED IdleVars

(* An exception anywhere inside the try: the single error entry. *)
PdfRaise ==
    /\ pc \in {"call", "pdf"}
    /\ fn_in \in PdfDocuments
    /\ pc' = "ret"
    /\ fn_out' = [error |-> TRUE, gathered |-> Gathered,
                  returned |-> <<[error |-> "e"]>>]
    /\ UNCHANGED fn_in
    /\ UNCHANGED IdleVars

PdfReturn ==
    /\ pc = "pdf"
    /\ fn_out.page > Len(fn_in)
    /\ pc' = "ret"
    /\ fn_out' = [error |-> FALSE, gathered |-> Gathered,
                  returned |-> fn_out.extracted_data]
    /\ UNCHANGED fn_in
    /\ UNCHANGED IdleVars

NextPdf ==
    \/ PdfOpen
    \/ PdfNextPage
    \/ PdfNextTable
    \/ PdfRaise
    \/ PdfReturn

SpecPdf == InitPdf /\ [][NextPdf]_vars

----------------------------------------------------------------------------
(* Claims about the PDF extractor. *)

RECURSIVE Flatten(_, _)
Flatten(doc, i) == IF i > Len(doc) THEN <<>> ELSE doc[i] \o Flatten(doc, i + 1)

(* The data rows of a table that have a text in both the mean cell (column  *)
(* mi) and the deviation cell (column si).                                  *)
CompleteRows(table, mi, si) ==
    SelectSeq(SubSeq(table, 2, Len(table)),
              LAMBDA row : /\ Len(row) >= mi /\ Len(row) >= si
                           /\ CleanCell(row[mi]) # <<>> /\ CleanCell(row[si]) # <<>>)

Admitted(table) ==
    Len(table) >= 2 /\ IsStatHeader(table[1])
        /\ MeanIdx(table[1]) # 0 /\ SdIdx(table[1]) # 0

(* The mean cell and the deviation cell of every such row of the tables     *)
(* the extractor admits, in document order.                                 *)
RECURSIVE EmittingRows(_, _)
EmittingRows(tables, i) ==
    IF i > Len(tables) THEN <<>>
    ELSE (IF Admitted(tables[i])
          THEN LET mi == MeanIdx(tables[i][1])
                   si == SdIdx(tables[i][1])
                   rs == CompleteRows(tables[i], mi, si)
               IN  [r \in 1..Len(rs) |-> <<rs[r][mi], rs[r][si]>>]
          ELSE <<>>) \o EmittingRows(tables, i + 1)

PdfReturned == pc = "ret" /\ ~fn_out.error

(* C13: the records returned are numbered 1, 2, ..., N in emission order,   *)
(* the count running over all tables and pages and owing nothing to the     *)
(* printed ID; there is exactly one record for each data row that has both  *)
(* a mean cell and a deviation cell, in document order, and none for any    *)
(* other row.                                                               *)
C13_SequentialNumbering ==
    PdfReturned =>
        LET rows == EmittingRows(Flatten(fn_in, 1), 1)
            recs == fn_out.returned
        IN  /\ Len(recs) = Len(rows)
            /\ \A i \in 1..Len(recs) :
                  /\ recs[i].id = i
                  /\ recs[i].mean[2] = rows[i][1]
                  /\ recs[i].sd[2] = rows[i][2]

(* A document of three pages, the second without a table, has returned two  *)
(* records numbered 1 and 2, one from each of its two tables, the first     *)
(* table holding a second data row that gave none.                          *)
C13_Witness ==
    /\ PdfReturned
    /\ Len(fn_in) = 3
    /\ Len(fn_in[1][1]) = 3
    /\ Len(fn_out.returned) = 2
    /\ fn_out.returned[1].id = 1
    /\ fn_out.returned[2].id = 2

Lower(ch) ==
    CASE ch = "M" -> "m" [] ch = "A" -> "a" [] ch = "S" -> "s" [] ch = "D" -> "d"
      [] ch = "H" -> "h" [] ch = "V" -> "v" [] ch = "I" -> "i"
      [] OTHER -> ch
LowerText(str) == [i \in 1..Len(str) |-> Lower(str[i])]

(* The two marker tokens, letter case disregarded, in English and Chinese. *)
CiSdToken(str) ==
    \/ IsSubstr(<<"s", "d">>, LowerText(str))
    \/ IsSubstr(<<"s", "t", "d">>, LowerText(str))
    \/ IsSubstr(<<"biao", "zhun", "cha">>, str)
CiMeanToken(str) ==
    \/ IsSubstr(<<"m", "e", "a", "n">>, LowerText(str))
    \/ IsSubstr(<<"a", "v", "e", "r", "a", "g", "e">>, LowerText(str))
    \/ IsSubstr(<<"ping", "jun">>, str)

OneTable == Len(fn_in) = 1 /\ Len(fn_in[1]) = 1
TheTable == fn_in[1][1]

(* C14: a document of one table yields records exactly when the table's     *)
(* header holds both a deviation token and a mean token, matched without    *)
(* regard to letter case, in Chinese or English (and a data row has both    *)
(* cells); a header that lacks either token yields none.                    *)
C14_HeaderNeedsBothTokens ==
    (PdfReturned /\ OneTable) =>
        LET header == [c \in 1..Len(TheTable[1]) |-> RemoveNl(CleanCell(TheTable[1][c]))]
            mi == LastCol(header, CiMeanToken)
            si == LastCol(header, CiSdToken)
        IN  (fn_out.returned # <<>>)
                <=> (mi # 0 /\ si # 0 /\ CompleteRows(TheTable, mi, si) # <<>>)

----------------------------------------------------------------------------
(* The generators from the reading of the source file on.  fn_in describes  *)
(* the source file: its extension, whether its reader accepts it, and the   *)
(* required columns its header provides (by the exact name or by a name     *)
(* that contains it).  A generator that gets past the reading continues     *)
(* with Extract.                                                            *)
RequiredColumns == {"SampleID", "Thickness", "MaxForce", "Displacement", "Angle"}
Extensions == {"docx", "xlsx", "csv", "pdf"}

Sources ==
    [ext : Extensions, readable : BOOLEAN, columns : SUBSET RequiredColumns]

(* Mutant of MissingColumns: every required column is reported. *)
MissingColumns_All(columns) == RequiredColumns

(* missing = [c for c in required if c not in df.columns] *)
MissingColumns(columns) == RequiredColumns \ columns

(* generate_report: the extension chooses the extractor; anything but       *)
(* .docx, .xlsx, .xls is returned as the unsupported-format error; an       *)
(* exception of the extractor ends in the handler of the whole body.        *)
TensileRead(src) ==
    IF src.ext \notin {"docx", "xlsx"} THEN "err_format"
    ELSE IF ~src.readable THEN "err_run"
    ELSE "read"

(* process_vda_report: read_csv in three encodings, then read_excel twice,  *)
(* whatever the extension; then the required columns.                       *)
VdaRead(src) ==
    IF ~src.readable THEN "err_read"
    ELSE IF MissingColumns(src.columns) # {} THEN "err_columns"
    ELSE "read"

ReadSource ==
    /\ pc = "read"
    /\ LET res == IF variant = "tensile" THEN TensileRead(fn_in) ELSE VdaRead(fn_in)
       IN  /\ IF res = "read"
              THEN pc' = "start" /\ UNCHANGED result
              ELSE Finish(res)
           /\ fn_out' = IF res = "err_columns" THEN MissingColumns(fn_in.columns)
                        ELSE fn_out
    /\ UNCHANGED <<variant, groups, include, mergeOk, tpl, slides, P, total_slides,
                   slide_idx, blk, row_offset, fn_in, disk, gui>>

(* Templates of the runs from the reading on: the first slide has a table   *)
(* of 2 or 4 blocks of 3 data rows, a table without any statistics row, or  *)
(* no table; the deck ends there or goes on with a slide without a table.   *)
TableLessSlide == Slide(FALSE, NoTable, "placeholder")

ErrTemplates ==
    {Template(nb, 3, "plain", Slide(TRUE, TemplateTable(nb, 3, "plain"), "placeholder"), ex) :
        nb \in {0, 2, 4}, ex \in {<<>>, <<TableLessSlide>>}}
    \cup {Template(0, 3, "plain", TableLessSlide, ex) : ex \in {<<>>, <<TableLessSlide>>}}

(* Extraction results of those runs: no group, one group, five groups. *)
ErrGroups == {<<>>, <<3>>, <<3, 3, 3, 3, 3>>}

GoodSource(v) ==
    [ext |-> IF v = "tensile" THEN "docx" ELSE "xlsx", readable |-> TRUE,
     columns |-> RequiredColumns]

InitErr ==
    /\ variant \in {"tensile", "vda"}
    /\ \/ /\ fn_in \in Sources
          /\ groups = <<3>>
          /\ tpl = Template(4, 3, "plain",
                            Slide(TRUE, TemplateTable(4, 3, "plain"), "placeholder"), <<>>)
          /\ include = TRUE
       \/ /\ fn_in = GoodSource(variant)
          /\ groups \in ErrGroups
          /\ tpl \in ErrTemplates
          /\ include \in BOOLEAN
    /\ mergeOk = TRUE
    /\ slides = <<>>
    /\ pc = "read"
    /\ P = 0
    /\ total_slides = 0
    /\ slide_idx = 0
    /\ blk = 0
    /\ row_offset = 0
    /\ result = "none"
    /\ fn_out = "none"
    /\ DirectCall(tpl)

NextErr ==
    \/ ReadSource
    \/ Extract
    \/ OpenTemplate
    \/ DuplicateSlide
    \/ BeginSlide
    \/ TensileBlock
    \/ VdaBlock
    \/ Save

SpecErr == InitErr /\ [][NextErr]_vars

----------------------------------------------------------------------------
(* Claims about the error results.  A run writes its output file in the     *)
(* successful Save only, so no file is written in a run whose result is not *)
(* "ok"; the in-memory deck is unmodified while it is empty (template not   *)
(* opened) or equal to the deck read from the template.                     *)
TemplateUntouched == slides = <<>> \/ slides = Deck(tpl)

(* C15: when the extraction has come back with zero groups, the next step   *)
(* of the run is its end, with the no-data error as the returned result     *)
(* (not an exception), the template unmodified and no output file written.  *)
C15_NoDataIsReported ==
    [][(pc = "start" /\ G = 0)
          => (pc' = "done" /\ result' = "err_nodata" /\ TemplateUntouched')]_vars

(* A run on a source without any group has ended with the no-data error. *)
C15_Witness ==
    /\ pc = "done"
    /\ G = 0
    /\ variant = "vda"
    /\ result = "err_nodata"
    /\ slides = Deck(tpl)

(* C16: a failure of the save is returned as the save error, a result no    *)
(* other failure gives, and never as the result of the generic handler.     *)
C16_SaveErrorIsDistinct ==
    [][/\ (pc = "save" /\ result' # "ok") => result' = "err_save"
       /\ (pc # "save") => result' # "err_save"]_vars

(* The template's first slide lacks the table, or its table lacks the       *)
(* statistics-row marker.                                                   *)
MalformedTemplate ==
    ~tpl.slide.hasTable \/ Len(MarkerRows(tpl.slide.table)) = 0

(* C17: a run that reaches a template lacking the table or the marker ends  *)
(* with the layout error; it neither saves nor returns success.             *)
C17_LayoutErrorOnMalformedTemplate ==
    (pc \in {"dup", "slide", "block", "save", "done"} /\ G >= 1 /\ MalformedTemplate
        /\ result \notin {"err_format", "err_read", "err_columns"}
        /\ ~(pc = "done" /\ slides = <<>>))
        => (pc = "done" /\ result = "err_notable")

(* C18: in the fill pass, the step on a slide without a table skips that    *)
(* slide: no table of the deck changes, no result is returned, and the run  *)
(* goes on to the next slide or, after the last one, to the save.           *)
C18_SlideWithoutTableIsSkipped ==
    [][(pc = "slide" /\ ~slides[slide_idx + 1].hasTable)
          => /\ result' = "none"
             /\ slide_idx' = slide_idx + 1
             /\ pc' = (IF slide_idx + 1 < total_slides THEN "slide" ELSE "save")
             /\ Len(slides') = Len(slides)
             /\ \A k \in 1..Len(slides) : slides'[k].table = slides[k].table]_vars

(* A tensile run of three slides whose second slide has no table has        *)
(* filled its third slide with the fifth group and has saved the report.    *)
C18_Witness ==
    /\ pc = "done"
    /\ result = "ok"
    /\ variant = "tensile"
    /\ total_slides = 3
    /\ ~slides[2].hasTable
    /\ 5 \in GroupsOn(2)

(* C19: when required columns cannot be located in a readable source, the   *)
(* run ends at once with the missing-columns error whose message names      *)
(* exactly the missing columns; the template is not opened and no output is *)
(* written.                                                                 *)
C19_MissingColumnsAreNamed ==
    [][(pc = "read" /\ variant = "vda" /\ fn_in.readable
            /\ fn_in.columns # RequiredColumns)
          => /\ pc' = "done"
             /\ result' = "err_columns"
             /\ fn_out' = {c \in RequiredColumns : c \notin fn_in.columns}
             /\ slides' = <<>>]_vars

(* A run on a source that lacks the force and the angle columns has ended   *)
(* with the error naming these two.                                         *)
C19_Witness ==
    /\ pc = "done"
    /\ result = "err_columns"
    /\ fn_in.columns = {"SampleID", "Thickness", "Displacement"}
    /\ fn_out = {"MaxForce", "Angle"}
    /\ slides = <<>>

(* The formats each generator reads. *)
Recognised(v, ext) ==
    IF v = "tensile" THEN ext \in {"docx", "xlsx"} ELSE ext \in {"csv", "xlsx"}

(* C20: a source whose format is not one the generator reads ends the run   *)
(* at once with the unsupported-format error, before any extraction, the    *)
(* template not opened and no output written.                               *)
C20_UnsupportedFormat ==
    [][(pc = "read" /\ ~Recognised(variant, fn_in.ext))
          => /\ pc' = "done"
             /\ result' = "err_format"
             /\ slides' = <<>>]_vars

----------------------------------------------------------------------------
(* gui_shared.get_unique_path.  A path is a sequence of characters; the     *)
(* file system is the set of paths at which something exists, fixed for     *)
(* the duration of the call.                                                *)
MaxPathLen == 3
MaxSuffix == 3

PathSep == "/"
ExtSep == "."
PathChars == {"r", ExtSep, PathSep}

RECURSIVE AllDots(_, _, _)
(* The loop of genericpath._splitext over the leading dots of the file      *)
(* name: TRUE when every character of p[from..to-1] is a dot.               *)
AllDots(p, from, to) ==
    IF from >= to THEN TRUE
    ELSE IF p[from] # ExtSep THEN FALSE
    ELSE AllDots(p, from + 1, to)

(* os.path.splitext(p): the extension starts at the last dot of the last    *)
(* path component, leading dots of the component not counting.              *)
splitext(p) ==
    LET sepIndex == LastIndex(p, PathSep, Len(p))
        dotIndex == LastIndex(p, ExtSep, Len(p))
    IN  IF dotIndex > sepIndex /\ ~AllDots(p, sepIndex + 1, dotIndex)
        THEN [base |-> SubSeq(p, 1, dotIndex - 1), ext |-> SubSeq(p, dotIndex, Len(p))]
        ELSE [base |-> p, ext |-> <<>>]

(* f"{base}_{i}{ext}" *)
Candidate(path, i) ==
    splitext(path).base \o <<"_">> \o IntDigits(i) \o splitext(path).ext

(* os.path.exists *)
Exists(files, p) == p \in files

UniquePaths == SeqsUpTo(PathChars, MaxPathLen)

InitUnique ==
    /\ Idle
    /\ pc = "call"
    /\ \E path \in UniquePaths :
       \E files \in SUBSET ({path} \cup {Candidate(path, i) : i \in 1..MaxSuffix}) :
          fn_in = [path |-> path, files |-> files]
    /\ fn_out = [i |-> 0, ret |-> <<>>]

(* if not os.path.exists(path): return path; otherwise i = 1. *)
UniqueCheck ==
    /\ pc = "call"
    /\ IF ~Exists(fn_in.files, fn_in.path)
       THEN /\ pc' = "ret"
            /\ fn_out' = [i |-> 0, ret |-> fn_in.path]
       ELSE /\ pc' = "loop"
            /\ fn_out' = [i |-> 1, ret |-> <<>>]
    /\ UNCHANGED fn_in
    /\ UNCHANGED IdleVars

(* Mutant of UniqueLoop: the counter advances by two. *)
UniqueLoop_SkipsOne ==
    /\ pc = "loop"
    /\ IF Exists(fn_in.files, Candidate(fn_in.path, fn_out.i))
       THEN /\ fn_out' = [fn_out EXCEPT !.i = @ + 2]
            /\ UNCHANGED pc
       ELSE /\ pc' = "ret"
            /\ fn_out' = [fn_out EXCEPT !.ret = Candidate(fn_in.path, fn_out.i)]
    /\ UNCHANGED fn_in
    /\ UNCHANGED IdleVars

(* while os.path.exists(f"{base}_{i}{ext}"): i += 1; return that path. *)
UniqueLoop ==
    /\ pc = "loop"
    /\ IF Exists(fn_in.files, Candidate(fn_in.path, fn_out.i))
       THEN /\ fn_out' = [fn_out EXCEPT !.i = @ + 1]
            /\ UNCHANGED pc
       ELSE /\ pc' = "ret"
            /\ fn_out' = [fn_out EXCEPT !.ret = Candidate(fn_in.path, fn_out.i)]
    /\ UNCHANGED fn_in
    /\ UNCHANGED IdleVars

NextUnique ==
    \/ UniqueCheck
    \/ UniqueLoop

(* The call runs to its return: the steps of the function are taken as      *)
(* long as one is possible.                                                 *)
SpecUnique == InitUnique /\ [][NextUnique]_vars /\ WF_vars(NextUnique)

SuffixedName(path, i) ==
    splitext(path).base \o <<"_">> \o IntDigits(i) \o splitext(path).ext

UniqueReturned ==
    /\ pc = "ret"
    /\ fn_out.ret \notin fn_in.files
    /\ IF fn_in.path \notin fn_in.files
       THEN fn_out.ret = fn_in.path
       ELSE \E i \in 1..(MaxSuffix + 1) :
               /\ fn_out.ret = SuffixedName(fn_in.path, i)
               /\ \A j \in 1..(i - 1) : SuffixedName(fn_in.path, j) \in fn_in.files

(* C21: get_unique_path returns the path itself when nothing exists there,  *)
(* otherwise base_i.ext for the smallest i >= 1 at which nothing exists;    *)
(* the returned path never names an existing file; and with finitely many   *)
(* suffixed files the call returns.                                         *)
C21_UniquePath ==
    /\ [](pc = "ret" => UniqueReturned)
    /\ <>(pc = "ret")

C21_Witness ==
    /\ pc = "ret"
    /\ fn_in.path \in fn_in.files
    /\ fn_out.i = 3
    /\ fn_out.ret = SuffixedName(fn_in.path, 3)
    /\ splitext(fn_in.path).ext # <<>>

----------------------------------------------------------------------------
(* The extract handler of the window (TensileFrame.run_extract_only and     *)
(* VDAFrame.run_extract_only): it picks the output path, calls the          *)
(* generator and shows a dialog.                                            *)

RECURSIVE UniqueFrom(_, _, _)
UniqueFrom(files, path, i) ==
    IF Exists(files, Candidate(path, i)) THEN UniqueFrom(files, path, i + 1)
    ELSE Candidate(path, i)

(* get_unique_path as a function of the paths that exist. *)
get_unique_path(files, path) ==
    IF ~Exists(files, path) THEN path ELSE UniqueFrom(files, path, 1)

PathsOn(files) == {f[1] : f \in files}

(* The folder of the source file, which is the folder of the report; its    *)
(* name is part of every path printed in a message.                         *)
ErrWord == "cuowu"
SourceFolders == {"data", ErrWord}

(* Reports of earlier runs in the folder. *)
OldReports ==
    SUBSET ({ReportPath} \cup {Candidate(ReportPath, i) : i \in 1..(MaxSuffix - 1)})

(* The texts the generators return, as the words the handler can find in    *)
(* them, transliterated (cuowu: the error word the handler tests for;       *)
(* chenggong: success; shibai: failure; yichang: exception; yunxing chucuo: *)
(* run failed; duqu shibai: reading failed; baocun shibai: saving failed).  *)
(*   The text of an exception carries the path of the file when the    *)
(* failure is one of a file operation.                                      *)
Messages(v, res, folder) ==
    IF v = "tensile"
    THEN CASE res = "err_format" -> {<<ErrWord, "unsupported format">>}
           [] res = "err_nodata" -> {<<ErrWord, "no data extracted">>}
           [] res = "err_notable" -> {<<ErrWord, "no table on slide 1">>}
           [] res = "err_run" -> {<<"yunxing chucuo", "Errno", folder, "Traceback">>,
                                  <<"yunxing chucuo", "IndexError", "Traceback">>}
           [] res = "ok" -> {<<"chenggong", "saved to", folder>>}
    ELSE CASE res = "err_read" -> {<<"duqu shibai", "Errno", folder>>}
           [] res = "err_columns" -> {<<ErrWord, "columns not found">>}
           [] res = "err_nodata" -> {<<ErrWord, "no valid groups">>}
           [] res = "ok" -> {<<"chenggong shengcheng baogao", "saved to", folder>>}
           [] res = "err_save" -> {<<"baocun shibai", "Errno", folder>>}

InitGui ==
    /\ variant \in {"tensile", "vda"}
    /\ \/ /\ fn_in \in Sources
          /\ groups = <<3>>
          /\ tpl = Template(4, 3, "plain",
                            Slide(TRUE, TemplateTable(4, 3, "plain"), "placeholder"), <<>>)
          /\ include = TRUE
          /\ disk = {<<TemplatePath, Deck(tpl)>>}
       \/ /\ fn_in = GoodSource(variant)
          /\ groups \in ErrGroups
          /\ tpl \in ErrTemplates
          /\ include \in BOOLEAN
          /\ \E old \in OldReports, bundled \in BOOLEAN :
                disk = {<<q, <<>>>> : q \in old}
                       \cup (IF bundled THEN {<<TemplatePath, Deck(tpl)>>} ELSE {})
    /\ \E folder \in SourceFolders :
          gui = [out |-> <<>>, folder |-> folder, dialog |-> <<>>, opened |-> FALSE]
    /\ mergeOk = TRUE
    /\ slides = <<>>
    /\ pc = "click"
    /\ P = 0
    /\ total_slides = 0
    /\ slide_idx = 0
    /\ blk = 0
    /\ row_offset = 0
    /\ result = "none"
    /\ fn_out = "none"

(* run_extract_only up to the call of the generator: the template must      *)
(* exist; the output path is a free name in the folder of the source.       *)
GuiClick ==
    /\ pc = "click"
    /\ IF ~Exists(PathsOn(disk), TemplatePath)
       THEN /\ pc' = "shown"
            /\ gui' = [gui EXCEPT !.dialog = <<ErrWord>>]
       ELSE /\ pc' = "read"
            /\ gui' = [gui EXCEPT !.out = get_unique_path(PathsOn(disk), ReportPath)]
    /\ UNCHANGED <<variant, groups, include, mergeOk, tpl, slides, P, total_slides,
                   slide_idx, blk, row_offset, result, fn_in, fn_out, disk>>

(* run_extract_only after the call: the success dialog and os.startfile     *)
(* when the message does not contain the error word, the failure dialog     *)
(* otherwise; an exception of the generator or of os.startfile is shown     *)
(* by the handler's except clause.                                          *)
GuiDialog ==
    /\ pc = "done"
    /\ pc' = "shown"
    /\ IF result = "raise"
       THEN gui' = [gui EXCEPT !.dialog = <<"yichang">>]
       ELSE \E msg \in Messages(variant, result, gui.folder) :
               IF ErrWord \notin SeqRange(msg)
               THEN IF Exists(PathsOn(disk), gui.out)
                    THEN gui' = [gui EXCEPT !.dialog = <<"chenggong">>, !.opened = TRUE]
                    ELSE gui' = [gui EXCEPT !.dialog = <<"chenggong", "yichang">>]
               ELSE gui' = [gui EXCEPT !.dialog = <<"shibai">>]
    /\ UNCHANGED <<variant, groups, include, mergeOk, tpl, slides, P, total_slides,
                   slide_idx, blk, row_offset, result, fn_in, fn_out, disk>>

NextGui ==
    \/ GuiClick
    \/ ReadSource
    \/ Extract
    \/ OpenTemplate
    \/ DuplicateSlide
    \/ BeginSlide
    \/ TensileBlock
    \/ VdaBlock
    \/ Save
    \/ GuiDialog

SpecGui == InitGui /\ [][NextGui]_vars

(* C22: no step of a run changes the template file: whatever is written to  *)
(* disk is written at the output path, which is not the template's path,    *)
(* and the template file holds what it held before the run, whether the     *)
(* run succeeds or fails.                                                   *)
C22_TemplateNeverWritten ==
    [][/\ \A f \in (disk \ disk') \cup (disk' \ disk) :
             f[1] = gui.out /\ f[1] # TemplatePath
       /\ (<<TemplatePath, Deck(tpl)>> \in disk) <=> (<<TemplatePath, Deck(tpl)>> \in disk')]_vars

C22_Witness ==
    /\ pc = "shown"
    /\ result = "ok"
    /\ slides # Deck(tpl)
    /\ gui.out = Candidate(ReportPath, 1)
    /\ <<gui.out, slides>> \in disk
    /\ <<TemplatePath, Deck(tpl)>> \in disk

FailureResults ==
    {"err_format", "err_read", "err_columns", "err_nodata", "err_notable",
     "err_run", "err_save"}

(* C26: when the handler has shown its dialog, the success dialog was shown *)
(* or the output file opened only if the generator returned success and     *)
(* the report is on disk at the output path; after every failure result     *)
(* the dialog is the failure dialog and the file is not opened.             *)
C26_SuccessDialogOnlyOnSuccess ==
    (pc = "shown" /\ result # "none") =>
        /\ ("chenggong" \in SeqRange(gui.dialog) \/ gui.opened)
              => (result = "ok" /\ <<gui.out, slides>> \in disk)
        /\ result \in FailureResults
              => (gui.dialog = <<"shibai">> /\ ~gui.opened)

----------------------------------------------------------------------------
(* config_manager: the configuration file and the functions that read and   *)
(* write it.  fn_in is the file config.json, fn_out the last call.          *)
DefaultKeys == {"tensile_template", "vda_template", "phase_template"}
DEFAULT_CONFIG == [k \in DefaultKeys |-> ""]

(* Keys and values of the calls: the template keys and one key unknown to   *)
(* the defaults; the empty path and two template paths.                     *)
ConfigKeys == DefaultKeys \cup {"window"}
ConfigValues == {"", "a.otp", "b.otp"}

NoData == [k \in {} |-> ""]
MissingFile == [kind |-> "missing", data |-> NoData]
(* A file that cannot be read or is not JSON (a dump that failed half-way). *)
CorruptFile == [kind |-> "corrupt", data |-> NoData]
ObjectFile(cfg) == [kind |-> "object", data |-> cfg]

(* Mutant of load_config: the stored object is returned as it is. *)
load_config_NoMerge(file) ==
    IF file.kind = "object" THEN file.data ELSE DEFAULT_CONFIG

(* load_config: the stored object with the missing default keys added; the  *)
(* defaults when the file does not exist or the read raises.                *)
load_config(file) ==
    IF file.kind = "object"
    THEN [k \in DOMAIN file.data \cup DefaultKeys |->
             IF k \in DOMAIN file.data THEN file.data[k] ELSE DEFAULT_CONFIG[k]]
    ELSE DEFAULT_CONFIG

SaveOutcomes == {"saved", "open fails", "dump fails"}

(* save_config: the file rewritten with the mapping; unchanged when it      *)
(* cannot be opened for writing, cut short when the dump raises.            *)
save_config(file, config, outcome) ==
    CASE outcome = "saved" -> ObjectFile(config)
      [] outcome = "open fails" -> file
      [] outcome = "dump fails" -> CorruptFile

(* config[key] = value *)
SetKey(config, key, value) ==
    [k \in DOMAIN config \cup {key} |-> IF k = key THEN value ELSE config[k]]

(* A first start, or a file left by a version that knew fewer keys. *)
InitConfig ==
    /\ Idle
    /\ pc = "call"
    /\ \/ fn_in = MissingFile
       \/ \E K \in SUBSET DefaultKeys : \E cfg \in [K -> {"", "a.otp"}] :
             fn_in = ObjectFile(cfg)
    /\ fn_out = [op |-> "none", ret |-> NoData]

CallLoadConfig ==
    /\ pc = "call"
    /\ fn_out' = [op |-> "load_config", ret |-> load_config(fn_in)]
    /\ UNCHANGED <<pc, fn_in>>
    /\ UNCHANGED IdleVars

(* set_template(key, path) *)
CallSetTemplate ==
    /\ pc = "call"
    /\ \E key \in DefaultKeys, path \in ConfigValues, outcome \in SaveOutcomes :
          LET config == SetKey(load_config(fn_in), key, path)
          IN  /\ fn_in' = save_config(fn_in, config, outcome)
              /\ fn_out' = [op |-> "set_template", ret |-> config]
    /\ UNCHANGED pc
    /\ UNCHANGED IdleVars

(* set_config_value(key, value) *)
CallSetConfigValue ==
    /\ pc = "call"
    /\ \E key \in ConfigKeys, value \in ConfigValues, outcome \in SaveOutcomes :
          LET config == SetKey(load_config(fn_in), key, value)
          IN  /\ fn_in' = save_config(fn_in, config, outcome)
              /\ fn_out' = [op |-> "set_config_value", ret |-> config]
    /\ UNCHANGED pc
    /\ UNCHANGED IdleVars

NextConfig ==
    \/ CallLoadConfig
    \/ CallSetTemplate
    \/ CallSetConfigValue

SpecConfig == InitConfig /\ [][NextConfig]_vars

(* C23: what load_config returned has every default key; on a stored        *)
(* object it has the stored keys with their stored values and the other     *)
(* default keys with their default values; on a missing or unreadable file  *)
(* it is exactly the defaults.  The file is the one left by any sequence    *)
(* of set operations, saved or not.                                         *)
C23_LoadConfigHasDefaults ==
    fn_out.op = "load_config" =>
        /\ DefaultKeys \subseteq DOMAIN fn_out.ret
        /\ IF fn_in.kind = "object"
           THEN /\ DOMAIN fn_out.ret = DOMAIN fn_in.data \cup DefaultKeys
                /\ \A k \in DOMAIN fn_in.data : fn_out.ret[k] = fn_in.data[k]
                /\ \A k \in DefaultKeys \ DOMAIN fn_in.data : fn_out.ret[k] = ""
           ELSE /\ DOMAIN fn_out.ret = DefaultKeys
                /\ \A k \in DefaultKeys : fn_out.ret[k] = ""

C23_Witness ==
    /\ fn_out.op = "load_config"
    /\ fn_in.kind = "object"
    /\ DOMAIN fn_in.data = {"tensile_template"}
    /\ fn_in.data["tensile_template"] = "a.otp"
    /\ fn_out.ret["tensile_template"] = "a.otp"
    /\ fn_out.ret["vda_template"] = ""

----------------------------------------------------------------------------
(* The growth of one block: a table of a header row, one block of data      *)
(* rows and its statistics row, sized for a group with more samples than    *)
(* the block has data rows.  The data rows of the block need not be alike:  *)
(* a row may split the grid differently from its neighbours, continue a     *)
(* vertical merge, or have cells without a tcPr element.                    *)
MaxAdded == 2
CloneGrid == 3

CloneRowKinds ==
    { <<Cell(TRUE, 1, FALSE, TplText), Cell(TRUE, CloneGrid - 1, FALSE, TplText)>>,
      <<Cell(TRUE, CloneGrid - 1, FALSE, TplText), Cell(TRUE, 1, FALSE, TplText)>>,
      <<Cell(TRUE, 1, TRUE, TplText)>> \o Ones(CloneGrid - 1, TRUE, TplText),
      Ones(CloneGrid, FALSE, TplText) }

CloneTable(kinds) ==
    [grid |-> CloneGrid,
     rows |-> <<MkRow(Ones(CloneGrid, TRUE, HdrText), 0)>>
              \o [r \in 1..Len(kinds) |-> MkRow(kinds[r], r)]
              \o <<MkRow(<<Cell(TRUE, 1, FALSE, AvgText(0))>>
                         \o Ones(CloneGrid - 1, TRUE, TplStatText), Len(kinds) + 1)>>]

InitClone ==
    /\ Idle
    /\ pc = "call"
    /\ \E v \in {"tensile", "vda"}, kinds \in SeqsUpTo(CloneRowKinds, MaxTplRows),
          added \in 1..MaxAdded :
          fn_in = [variant |-> v, table |-> CloneTable(kinds),
                   n_samples |-> Len(kinds) + added]
    /\ fn_out = [t |-> NoTable, off |-> 0, raised |-> FALSE]

(* generate_report: block 0 is located by the scan and grown by             *)
(* insert_row(main_table, stat_row_idx, start_row_idx).                     *)
GrowTensileBlock ==
    /\ pc = "call"
    /\ fn_in.variant = "tensile"
    /\ pc' = "ret"
    /\ fn_out' = VdaOut(TensileResize(fn_in.table, MarkerRows(fn_in.table)[1],
                                      HEADER_ROWS, fn_in.n_samples), 0, FALSE)
    /\ UNCHANGED fn_in
    /\ UNCHANGED IdleVars

(* process_table_chunk: block 0 starts at HEADER_ROWS and is grown by       *)
(* add_table_row(table, current_stats_row_idx - 1).                         *)
GrowVdaBlock ==
    /\ pc = "call"
    /\ fn_in.variant = "vda"
    /\ pc' = "ret"
    /\ fn_out' = VdaResize(fn_in.table, HEADER_ROWS, 0, fn_in.n_samples)
    /\ UNCHANGED fn_in
    /\ UNCHANGED IdleVars

NextClone ==
    \/ GrowTensileBlock
    \/ GrowVdaBlock

SpecClone == InitClone /\ [][NextClone]_vars

(* What the clone of a row is to be: the row's cells with their column      *)
(* spans, no vertical-merge state and no text.                              *)
StrippedClone(row) ==
    [c \in 1..Len(row.cells) |->
        [row.cells[c] EXCEPT !.vMerge = FALSE, !.text = Empty]]

CellsOf(t) == [r \in 1..NRows(t) |-> t.rows[r].cells]

(* C24: a block grown for a group with more samples than it has data rows   *)
(* keeps its rows, and has between its last data row and its statistics     *)
(* row one row per missing sample, each the clone of the block's last data  *)
(* row with the column spans kept, the vertical-merge state removed and     *)
(* the text cleared.                                                        *)
C24_AddedRowsCloneLastDataRow ==
    (pc = "ret" /\ ~fn_out.raised) =>
        LET t    == fn_in.table
            nd   == NRows(t) - 2
            last == RowAt(t, nd)
        IN  CellsOf(fn_out.t) =
               SubSeq(CellsOf(t), 1, nd + 1)
               \o [j \in 1..(fn_in.n_samples - nd) |-> StrippedClone(last)]
               \o <<RowAt(t, nd + 1).cells>>

----------------------------------------------------------------------------
(* The statistics-row index a block step works from, for the block it is    *)
(* about to size and fill: in generate_report the entry of the scan made    *)
(* at the head of the iteration, in process_table_chunk                     *)
(* current_start_row + DEFAULT_DATA_ROWS.                                   *)
StatRowUsed(v, t, i, off) ==
    IF v = "tensile" THEN MarkerRows(t)[i + 1]
    ELSE HEADER_ROWS + (i * BLOCK_SIZE) + off + DEFAULT_DATA_ROWS

(* The block step is about to size and fill block blk for a group. *)
BlockHasGroup ==
    /\ pc = "block"
    /\ blk < Len(Batch(slide_idx))
    /\ variant = "tensile" => (blk < P /\ blk < Len(MarkerRows(TableOf(slide_idx))))

(* C25: whenever a block is about to be sized and filled, the statistics-   *)
(* row index the step works from is the index a scan of the table for the   *)
(* marker text gives at that moment, after all the edits made so far.       *)
C25_IndicesFromFreshScan ==
    BlockHasGroup =>
        LET t == TableOf(slide_idx) IN
        /\ blk < Len(MarkerRows(t))
        /\ StatRowUsed(variant, t, blk, row_offset) = MarkerRows(t)[blk + 1]

----------------------------------------------------------------------------
(* The slides added by the copy loop: the ones after the template's own. *)
Clones == (Len(Deck(tpl)) + 1)..Len(slides)

(* C27: when the fill pass starts, the copy loop has added all its clones   *)
(* (one per slide needed beyond the first) and slide 0 and every clone      *)
(* still hold the template's table, with its rows, marker rows and          *)
(* columns; the copy loop changes no existing slide, and once the fill      *)
(* pass runs no slide is added.                                             *)
C27_ClonesBeforeFill ==
    /\ []((pc = "slide" /\ slide_idx = 0) =>
             /\ Len(slides) = Len(Deck(tpl)) + total_slides - 1
             /\ slides[1] = tpl.slide
             /\ \A k \in Clones : slides[k] = tpl.slide)
    /\ [][/\ pc = "dup" => SubSeq(slides', 1, Len(slides)) = slides
          /\ pc \in {"slide", "block", "save"} => Len(slides') = Len(slides)]_vars

(* Three slides are needed and the template has a second slide of its own: *)
(* the two clones stand after it.                                           *)
C27_Witness ==
    /\ pc = "slide"
    /\ slide_idx = 0
    /\ total_slides = 3
    /\ Len(Deck(tpl)) = 2
    /\ Len(slides) = 4
    /\ \A k \in Clones : slides[k].hasTable /\ slides[k].table = tpl.slide.table

----------------------------------------------------------------------------
(* Grouping.  The accepted rows of a source are given by their group names  *)
(* in source order; a row is known by its position.                         *)
MaxRowsIn == 4
GroupNames == {"A", "B", "C"}

GroupIndex(gs, name) ==
    IF \E j \in 1..Len(gs) : gs[j].name = name
    THEN CHOOSE j \in 1..Len(gs) : gs[j].name = name
    ELSE 0

(* Mutant of AddItem: a row joins the last group when it carries its name   *)
(* and opens a new group otherwise.                                         *)
AddItem_Adjacent(gs, name, r) ==
    IF Len(gs) > 0 /\ gs[Len(gs)].name = name
    THEN [gs EXCEPT ![Len(gs)].rows = Append(@, r)]
    ELSE Append(gs, [name |-> name, rows |-> <<r>>])

(* if group_name not in extracted_groups: extracted_groups[group_name] = [] *)
(* extracted_groups[group_name].append(item)                                *)
(* The dict keeps its keys in insertion order.                              *)
AddItem(gs, name, r) ==
    IF GroupIndex(gs, name) = 0
    THEN Append(gs, [name |-> name, rows |-> <<r>>])
    ELSE [gs EXCEPT ![GroupIndex(gs, name)].rows = Append(@, r)]

RECURSIVE ExtractGroups(_, _, _)
(* The row loop of extract_from_docx / extract_from_excel from row r on. *)
ExtractGroups(names, r, gs) ==
    IF r > Len(names) THEN gs
    ELSE ExtractGroups(names, r + 1, AddItem(gs, names[r], r))

RECURSIVE Unique(_, _, _)
(* df['GroupName'].unique(): the values in order of first appearance. *)
Unique(names, r, seen) ==
    IF r > Len(names) THEN seen
    ELSE Unique(names, r + 1,
                IF \E j \in 1..Len(seen) : seen[j] = names[r] THEN seen
                ELSE Append(seen, names[r]))

RECURSIVE RowsNamed(_, _, _)
(* full_df[full_df['GroupName'] == group_name]: the rows of that name, in   *)
(* source order.                                                            *)
RowsNamed(names, r, name) ==
    IF r > Len(names) THEN <<>>
    ELSE (IF names[r] = name THEN <<r>> ELSE <<>>) \o RowsNamed(names, r + 1, name)

VdaGroups(names) ==
    LET unique_groups == Unique(names, 1, <<>>) IN
    [g \in 1..Len(unique_groups) |->
        [name |-> unique_groups[g], rows |-> RowsNamed(names, 1, unique_groups[g])]]

InitGroup ==
    /\ Idle
    /\ pc = "call"
    /\ \E v \in {"tensile", "vda"}, names \in SeqsUpTo(GroupNames, MaxRowsIn) :
          fn_in = [variant |-> v, names |-> names]
    /\ fn_out = <<>>

GroupTensileRows ==
    /\ pc = "call"
    /\ fn_in.variant = "tensile"
    /\ pc' = "ret"
    /\ fn_out' = ExtractGroups(fn_in.names, 1, <<>>)
    /\ UNCHANGED fn_in
    /\ UNCHANGED IdleVars

GroupVdaRows ==
    /\ pc = "call"
    /\ fn_in.variant = "vda"
    /\ pc' = "ret"
    /\ fn_out' = VdaGroups(fn_in.names)
    /\ UNCHANGED fn_in
    /\ UNCHANGED IdleVars

NextGroup ==
    \/ GroupTensileRows
    \/ GroupVdaRows

SpecGroup == InitGroup /\ [][NextGroup]_vars

FirstRowOf(names, name) == CHOOSE r \in 1..Len(names) :
    names[r] = name /\ \A q \in 1..(r - 1) : names[q] # name

RECURSIVE SizeSum(_, _)
SizeSum(gs, g) == IF g > Len(gs) THEN 0 ELSE Len(gs[g].rows) + SizeSum(gs, g + 1)

(* C28: when the rows have been grouped, every accepted row is in exactly   *)
(* one group and once in it, a group holds the rows of its name and no two  *)
(* groups have the same name, the groups come in the order in which their   *)
(* names first appear in the source, and the group sizes add up to the      *)
(* number of accepted rows.                                                 *)
C28_GroupingConservesRecords ==
    pc = "ret" =>
        LET names == fn_in.names
            gs    == fn_out
        IN  /\ \A r \in 1..Len(names) :
                  Cardinality({<<g, k>> \in (1..Len(gs)) \X (1..MaxRowsIn + 1) :
                                  k <= Len(gs[g].rows) /\ gs[g].rows[k] = r}) = 1
            /\ \A g \in 1..Len(gs) : \A k \in 1..Len(gs[g].rows) :
                  names[gs[g].rows[k]] = gs[g].name
            /\ \A g, h \in 1..Len(gs) : gs[g].name = gs[h].name => g = h
            /\ \A g, h \in 1..Len(gs) :
                  g < h => FirstRowOf(names, gs[g].name) < FirstRowOf(names, gs[h].name)
            /\ SizeSum(gs, 1) = Len(names)

C28_Witness ==
    /\ pc = "ret"
    /\ fn_in.names = <<"B", "A", "B", "C">>
    /\ Len(fn_out) = 3
    /\ fn_out[1] = [name |-> "B", rows |-> <<1, 3>>]

----------------------------------------------------------------------------
IsRecord(e) == DOMAIN e = {"id", "mean", "sd"}
IsErrorEntry(e) == DOMAIN e = {"error"}

(* C29: what parse_hardness_report returns is either a list of records      *)
(* only, each with id, mean and sd, or a list of exactly one error entry;   *)
(* after an exception the records gathered before it are not returned.     *)
C29_RecordsOrOneError ==
    pc = "ret" =>
        IF fn_out.error
        THEN Len(fn_out.returned) = 1 /\ IsErrorEntry(fn_out.returned[1])
        ELSE /\ \A i \in 1..Len(fn_out.returned) : IsRecord(fn_out.returned[i])
             /\ Len(fn_out.returned) = fn_out.gathered

C29_Witness ==
    /\ pc = "ret"
    /\ fn_out.error
    /\ fn_out.gathered = 2
    /\ Len(fn_in) = 3
    /\ Len(fn_out.returned) = 1
    /\ IsErrorEntry(fn_out.returned[1])

----------------------------------------------------------------------------
(* origin_processor.copy_graph_to_ppt_ole.  The plotting application and    *)
(* the presentation application are the environment: fn_in says, for each   *)
(* Ctrl+J in turn, whether it puts the graph on the clipboard, and what     *)
(* each of the two Paste calls does.                                        *)
MaxRetry == 3
MaxCtrlJ == MaxRetry + 2
PasteOutcomes == {"adds", "nothing", "raises"}

(* Shapes.Paste() with the given outcome: a shape is added only when the    *)
(* clipboard holds the graph.                                               *)
Pasted(outcome, onClipboard) ==
    IF outcome = "adds" /\ ~onClipboard THEN "nothing" ELSE outcome

InitOle ==
    /\ Idle
    /\ pc = "call"
    /\ fn_in \in [copies : [1..MaxCtrlJ -> BOOLEAN],
                  paste1 : PasteOutcomes, paste2 : PasteOutcomes]
    /\ fn_out = [ctrl_j |-> 0, changed |-> FALSE, retry_count |-> 0, added |-> 0,
                 ret |-> "none"]

(* The clipboard is emptied, the graph window activated, Ctrl+J sent once   *)
(* and the clipboard sequence number read.                                  *)
OleCopy ==
    /\ pc = "call"
    /\ pc' = "check"
    /\ fn_out' = [fn_out EXCEPT !.ctrl_j = 1, !.changed = fn_in.copies[1]]
    /\ UNCHANGED fn_in
    /\ UNCHANGED IdleVars

(* while new_seq == initial_seq and retry_count < 3 *)
OleRetry ==
    /\ pc = "check"
    /\ ~fn_out.changed /\ fn_out.retry_count < MaxRetry
    /\ fn_out' = [fn_out EXCEPT !.ctrl_j = @ + 1,
                                !.changed = fn_in.copies[fn_out.ctrl_j + 1],
                                !.retry_count = @ + 1]
    /\ UNCHANGED <<pc, fn_in>>
    /\ UNCHANGED IdleVars

(* The first Paste: an exception returns False. *)
OlePaste ==
    /\ pc = "check"
    /\ fn_out.changed \/ fn_out.retry_count >= MaxRetry
    /\ LET res == Pasted(fn_in.paste1, fn_out.changed) IN
       IF res = "raises"
       THEN /\ pc' = "ret"
            /\ fn_out' = [fn_out EXCEPT !.ret = "False"]
       ELSE /\ pc' = "pasted"
            /\ fn_out' = [fn_out EXCEPT !.added = IF res = "adds" THEN 1 ELSE 0]
    /\ UNCHANGED fn_in
    /\ UNCHANGED IdleVars

(* if slide.Shapes.Count == initial_count: Ctrl+J and Paste once more, an   *)
(* exception of the Paste being passed over.                                *)
OleRepaste ==
    /\ pc = "pasted"
    /\ fn_out.added = 0
    /\ pc' = "size"
    /\ LET now == fn_out.changed \/ fn_in.copies[fn_out.ctrl_j + 1]
           res == Pasted(fn_in.paste2, now)
       IN  fn_out' = [fn_out EXCEPT !.ctrl_j = @ + 1, !.changed = now,
                                    !.added = IF res = "adds" THEN 1 ELSE 0]
    /\ UNCHANGED fn_in
    /\ UNCHANGED IdleVars

(* The shape is sized and placed if there is one; return True. *)
OleReturn ==
    /\ pc = "size" \/ (pc = "pasted" /\ fn_out.added > 0)
    /\ pc' = "ret"
    /\ fn_out' = [fn_out EXCEPT !.ret = "True"]
    /\ UNCHANGED fn_in
    /\ UNCHANGED IdleVars

NextOle ==
    \/ OleCopy
    \/ OleRetry
    \/ OlePaste
    \/ OleRepaste
    \/ OleReturn

SpecOle == InitOle /\ [][NextOle]_vars

(* C30: copy_graph_to_ppt_ole has returned True only if the slide has a     *)
(* shape more than before the call; it has not returned True when no        *)
(* Ctrl+J changed the clipboard or when the pastes added nothing; and the   *)
(* copy was repeated at most three times before the paste.                  *)
C30_TrueOnlyWithShapeAdded ==
    /\ fn_out.retry_count <= MaxRetry
    /\ (pc = "ret" /\ fn_out.ret = "True") => (fn_out.added > 0 /\ fn_out.changed)

=============================================================================
